---- MODULE Spec2Model ----
(***************************************************************************)
(* A state-machine model of the CaDiCaL solver of src/cadical.cc: DIMACS   *)
(* clause intake, two-watched-literal propagation, first-UIP analysis,     *)
(* the VMTF queue, EMA driven restarts, clause-database reduction and the  *)
(* search driver.  The static variables of the source are the variables    *)
(* of the model and keep their names; every C function is an operator on   *)
(* the record M of all of them and returns the record after the call.      *)
(*                                                                         *)
(* Pointers to clauses are indices into 'memory' (0 is the null pointer),  *)
(* a deleted clause keeps its slot with freed = TRUE.  C arrays that are   *)
(* indexed from 0 (trail, levels, literals) are sequences indexed from 1.  *)
(* Doubles are dyadic rationals n / 2^e, which is exact for the option     *)
(* values and run lengths considered here.                                 *)
(***************************************************************************)
EXTENDS Integers, Sequences, FiniteSets, TLC

VARIABLES
  dimacs_file,          \* the input: header max_var and the clause lines
  proof_file,           \* TRUE iff a proof trace is being written
  proof,                \* the lines written to proof_file so far
  opts,                 \* the option values
  pc,                   \* position of main: "header", "parse", "search", "propagated", "done", "abort"
  res,                  \* result of search: 0, 10 or 20
  parsed_clauses,       \* clause lines consumed by parse_dimacs
  max_var, vars, vals, phases, all_literal_watches, queue, unsat, level,
  levels, propagate_next, trail, clause, memory, irredundant, redundant,
  iterating, seen, conflict, stats, ema, limits, inc,
  branch,               \* the branch the search loop took last ("" before the first)
  hazard,               \* accesses outside an object made so far (none: {})
  work,                 \* 'work' of the last mark_redundant_clauses, after its sort
  reduced_at,           \* stats.conflicts at each call of reduce so far, in order
  analyzed,             \* seen.literals of the last analyze, as bump_and_clear_seen_literals got it
  scans,                \* the backward scans of the last analyze: 'open' before each, and where it stopped
  average,              \* an EMA object updated on its own (EmaSpec)
  fed                   \* the observations 'average' was updated with, in order

vars_all == << dimacs_file, proof_file, proof, opts, pc, res, parsed_clauses,
  max_var, vars, vals, phases, all_literal_watches, queue, unsat, level,
  levels, propagate_next, trail, clause, memory, irredundant, redundant,
  iterating, seen, conflict, stats, ema, limits, inc, branch, hazard, work,
  reduced_at, analyzed, scans, average, fed >>

(***************************************************************************)
(* Bounds of the model.                                                    *)
(***************************************************************************)
MaxVar == 2          \* variables of the enumerated inputs
MaxLen == 3          \* literals of an enumerated input clause line
MaxClauses == 2      \* clause lines of an enumerated multi-clause input
MaxConflicts == 12   \* the search is cut off beyond this many conflicts
MaxObservation == 2  \* observations given to an EMA on its own are 0..MaxObservation
MaxFed == 5          \* updates of an EMA on its own with any observations
MaxSame == 20        \* updates of an EMA on its own with one observation repeated

(***************************************************************************)
(* Small helpers.                                                          *)
(***************************************************************************)
abs(x) == IF x < 0 THEN 0 - x ELSE x

neg(x) == 0 - x

Range(s) == { s[i] : i \in 1..Len(s) }

Last(s) == s[Len(s)]

Front(s) == SubSeq(s, 1, Len(s) - 1)

Swap(s, i, j) == [s EXCEPT ![i] = s[j], ![j] = s[i]]

Lits(V) == { l \in (0 - V)..V : l # 0 }

\* F applied to the value of v: the value is computed once, as the value of a
\* C expression bound to a local is, however often F names it.
Bind(v, F(_)) == CHOOSE r \in { F(x) : x \in {v} } : TRUE

RECURSIVE Pow2(_)
Pow2(k) == IF k = 0 THEN 1 ELSE 2 * Pow2(k - 1)

(***************************************************************************)
(* Doubles as dyadic rationals [n, e] = n / 2^e in lowest terms.           *)
(***************************************************************************)
RECURSIVE Dy(_, _)
Dy(n, e) == IF e > 0 /\ n % 2 = 0 THEN Dy(n \div 2, e - 1) ELSE [n |-> n, e |-> e]

DyInt(i) == [n |-> i, e |-> 0]

DyLess(a, b) == a.n * Pow2(b.e) < b.n * Pow2(a.e)

DyLeq(a, b) == a.n * Pow2(b.e) <= b.n * Pow2(a.e)

DyAdd(a, b) == Dy(a.n * Pow2(b.e) + b.n * Pow2(a.e), a.e + b.e)

DySub(a, b) == Dy(a.n * Pow2(b.e) - b.n * Pow2(a.e), a.e + b.e)

DyMul(a, b) == Dy(a.n * b.n, a.e + b.e)

(***************************************************************************)
(* struct EMA and EMA::update.                                             *)
(***************************************************************************)
EMA(a) == [value |-> DyInt(0), alpha |-> a, beta |-> DyInt(1), wait |-> 0, period |-> 0]

\* EMA::update adding beta * y instead of beta * (y - value).
EMA_update_adding(E, y) ==
  LET E1 == [E EXCEPT !.value = DyAdd(E.value, DyMul(E.beta, DyInt(y)))]
  IN  IF DyLeq(E1.beta, E1.alpha) THEN E1
      ELSE IF E1.wait # 0 THEN [E1 EXCEPT !.wait = E1.wait - 1]
      ELSE LET p == 2 * (E1.period + 1) - 1
               b == DyMul(E1.beta, Dy(1, 1))
           IN  [E1 EXCEPT !.wait = p, !.period = p,
                          !.beta = IF DyLess(b, E1.alpha) THEN E1.alpha ELSE b]

\* EMA::update with periods that grow by one instead of doubling.
EMA_update_linear(E, y) ==
  LET E1 == [E EXCEPT !.value = DyAdd(E.value, DyMul(E.beta, DySub(DyInt(y), E.value)))]
  IN  IF DyLeq(E1.beta, E1.alpha) THEN E1
      ELSE IF E1.wait # 0 THEN [E1 EXCEPT !.wait = E1.wait - 1]
      ELSE LET p == E1.period + 1
               b == DyMul(E1.beta, Dy(1, 1))
           IN  [E1 EXCEPT !.wait = p, !.period = p,
                          !.beta = IF DyLess(b, E1.alpha) THEN E1.alpha ELSE b]

EMA_update(E, y) ==
  LET E1 == [E EXCEPT !.value = DyAdd(E.value, DyMul(E.beta, DySub(DyInt(y), E.value)))]
  IN  IF DyLeq(E1.beta, E1.alpha) THEN E1
      ELSE IF E1.wait # 0 THEN [E1 EXCEPT !.wait = E1.wait - 1]
      ELSE LET p == 2 * (E1.period + 1) - 1
               b == DyMul(E1.beta, Dy(1, 1))
           IN  [E1 EXCEPT !.wait = p, !.period = p,
                          !.beta = IF DyLess(b, E1.alpha) THEN E1.alpha ELSE b]

(***************************************************************************)
(* The record of all static variables, and its write-back.                 *)
(***************************************************************************)
M == [ dimacs_file |-> dimacs_file, proof_file |-> proof_file, proof |-> proof,
       opts |-> opts, pc |-> pc, res |-> res, parsed_clauses |-> parsed_clauses,
       max_var |-> max_var, vars |-> vars, vals |-> vals, phases |-> phases,
       all_literal_watches |-> all_literal_watches, queue |-> queue,
       unsat |-> unsat, level |-> level, levels |-> levels,
       propagate_next |-> propagate_next, trail |-> trail, clause |-> clause,
       memory |-> memory, irredundant |-> irredundant, redundant |-> redundant,
       iterating |-> iterating, seen |-> seen, conflict |-> conflict,
       stats |-> stats, ema |-> ema, limits |-> limits, inc |-> inc,
       branch |-> branch, hazard |-> hazard, work |-> work,
       reduced_at |-> reduced_at, analyzed |-> analyzed, scans |-> scans ]

Set(m) ==
  /\ dimacs_file' = m.dimacs_file /\ proof_file' = m.proof_file /\ proof' = m.proof
  /\ opts' = m.opts /\ pc' = m.pc /\ res' = m.res
  /\ parsed_clauses' = m.parsed_clauses
  /\ max_var' = m.max_var /\ vars' = m.vars /\ vals' = m.vals /\ phases' = m.phases
  /\ all_literal_watches' = m.all_literal_watches /\ queue' = m.queue
  /\ unsat' = m.unsat /\ level' = m.level /\ levels' = m.levels
  /\ propagate_next' = m.propagate_next /\ trail' = m.trail /\ clause' = m.clause
  /\ memory' = m.memory /\ irredundant' = m.irredundant /\ redundant' = m.redundant
  /\ iterating' = m.iterating /\ seen' = m.seen /\ conflict' = m.conflict
  /\ stats' = m.stats /\ ema' = m.ema /\ limits' = m.limits /\ inc' = m.inc
  /\ branch' = m.branch /\ hazard' = m.hazard /\ work' = m.work
  /\ reduced_at' = m.reduced_at /\ analyzed' = m.analyzed /\ scans' = m.scans
  /\ UNCHANGED << average, fed >>

(***************************************************************************)
(* Sorting.  SortByKey is the result of std::sort when no two different    *)
(* elements have equal keys; SortOutcomes is every order std::sort may     *)
(* leave elements of equal key in.                                         *)
(***************************************************************************)
RECURSIVE InsertByKey(_, _, _)
InsertByKey(s, x, key) ==
  IF s = << >> THEN << x >>
  ELSE IF key[x] < key[Head(s)] THEN << x >> \o s
  ELSE << Head(s) >> \o InsertByKey(Tail(s), x, key)

RECURSIVE SortByKey(_, _)
SortByKey(s, key) ==
  IF s = << >> THEN << >>
  ELSE Bind(SortByKey(Front(s), key), LAMBDA t : InsertByKey(t, Last(s), key))

SortOutcomes(s, key) ==
  IF \A i, j \in 1..Len(s) : i # j => key[s[i]] # key[s[j]]
  THEN { SortByKey(s, key) }
  ELSE { [i \in 1..Len(s) |-> s[p[i]]] :
           p \in { q \in [1..Len(s) -> 1..Len(s)] :
                     /\ \A i, j \in 1..Len(s) : i # j => q[i] # q[j]
                     /\ \A i \in 1..(Len(s) - 1) : key[s[q[i]]] <= key[s[q[i + 1]]] } }

(***************************************************************************)
(* Access to values, variables and watch lists.                            *)
(***************************************************************************)
vidx(lit) == abs(lit)

val(m, lit) == IF lit < 0 THEN 0 - m.vals[vidx(lit)] ELSE m.vals[vidx(lit)]

fixed(m, lit) ==
  LET idx == vidx(lit)
      r == IF m.vals[idx] # 0 /\ m.vars[idx].level # 0 THEN 0 ELSE m.vals[idx]
  IN  IF lit < 0 THEN 0 - r ELSE r

sign(lit) == IF lit < 0 THEN -1 ELSE 1

watches(m, lit) == m.all_literal_watches[lit]

var(m, lit) == m.vars[vidx(lit)]

Var == [seen |-> FALSE, minimized |-> FALSE, poison |-> FALSE, level |-> 0,
        bumped |-> 0, prev |-> 0, next |-> 0, reason |-> 0]

Watch(m, b, c) == [blit |-> b, size |-> m.memory[c].size, clause |-> c]

Level(d) == [decision |-> d, seen |-> 0]

(***************************************************************************)
(* Trail and assignment.                                                   *)
(***************************************************************************)
\* assign recording no reason.
assign_without_reason(m, lit, reason) ==
  LET idx == vidx(lit)
      m1 == IF m.level = 0
            THEN [m EXCEPT !.stats.fixed = @ + 1, !.iterating = TRUE]
            ELSE m
  IN  [m1 EXCEPT !.vars[idx].level = m.level,
                 !.vars[idx].reason = 0,
                 !.vals[idx] = sign(lit),
                 !.phases[idx] = sign(lit),
                 !.trail = Append(@, lit)]

assign(m, lit, reason) ==
  LET idx == vidx(lit)
      m1 == IF m.level = 0
            THEN [m EXCEPT !.stats.fixed = @ + 1, !.iterating = TRUE]
            ELSE m
  IN  [m1 EXCEPT !.vars[idx].level = m.level,
                 !.vars[idx].reason = reason,
                 !.vals[idx] = sign(lit),
                 !.phases[idx] = sign(lit),
                 !.trail = Append(@, lit)]

\* unassign leaving the cursor of the queue where it is.
unassign_keeping_cursor(m, lit) == [m EXCEPT !.vals[vidx(lit)] = 0]

unassign(m, lit) ==
  LET idx == vidx(lit)
      m1 == [m EXCEPT !.vals[idx] = 0]
  IN  IF var(m1, m1.queue.next).bumped >= m1.vars[idx].bumped THEN m1
      ELSE [m1 EXCEPT !.queue.next = idx]

\* backtrack_loop stopping one literal early: the decision of the level
\* left stays assigned and on the trail.
RECURSIVE backtrack_loop_short(_, _)
backtrack_loop_short(m, decision) ==
  LET lit == Last(m.trail)
  IN  IF lit = decision THEN m
      ELSE Bind([unassign(m, lit) EXCEPT !.trail = Front(m.trail)],
                LAMBDA m1 : backtrack_loop_short(m1, decision))

RECURSIVE backtrack_loop(_, _)
backtrack_loop(m, decision) ==
  LET lit == Last(m.trail)
  IN  Bind([unassign(m, lit) EXCEPT !.trail = Front(m.trail)],
           LAMBDA m1 : IF lit # decision THEN backtrack_loop(m1, decision) ELSE m1)

backtrack(m, target_level) ==
  IF target_level = m.level THEN m
  ELSE LET decision == m.levels[target_level + 2].decision
       IN  Bind(backtrack_loop(m, decision), LAMBDA m1 :
             [m1 EXCEPT !.propagate_next =
                           IF Len(m1.trail) < @ THEN Len(m1.trail) ELSE @,
                        !.levels = SubSeq(@, 1, target_level + 1),
                        !.level = target_level])

(***************************************************************************)
(* Proof trace.                                                            *)
(***************************************************************************)
trace_empty_clause(m) ==
  IF ~m.proof_file THEN m ELSE [m EXCEPT !.proof = Append(@, << 0 >>)]

trace_unit_clause(m, unit) ==
  IF ~m.proof_file THEN m ELSE [m EXCEPT !.proof = Append(@, << unit, 0 >>)]

trace_add_clause(m, c) ==
  IF ~m.proof_file THEN m
  ELSE [m EXCEPT !.proof = Append(@, m.memory[c].literals \o << 0 >>)]

learn_empty_clause(m) == [trace_empty_clause(m) EXCEPT !.unsat = TRUE]

(***************************************************************************)
(* Clauses and watches.                                                    *)
(***************************************************************************)
\* watch_literal storing the complement of the blocking literal.
watch_literal_negated(m, lit, blit, c) ==
  [m EXCEPT !.all_literal_watches[lit] = Append(@, Watch(m, neg(blit), c))]

watch_literal(m, lit, blit, c) ==
  [m EXCEPT !.all_literal_watches[lit] = Append(@, Watch(m, blit, c))]

\* watch_clause registering the watch of the first literal only.
watch_clause_once(m, c) ==
  watch_literal(m, m.memory[c].literals[1], m.memory[c].literals[2], c)

watch_clause(m, c) ==
  LET l0 == m.memory[c].literals[1]
      l1 == m.memory[c].literals[2]
  IN  watch_literal(watch_literal(m, l0, l1, c), l1, l0, c)

\* The new clause is the last of memory.
new_clause(m, red, glue) ==
  LET c == Len(m.memory) + 1
      r == [redundant |-> red, garbage |-> FALSE, reason |-> FALSE,
            size |-> Len(m.clause), glue |-> glue,
            resolved |-> m.stats.conflicts, literals |-> m.clause,
            freed |-> FALSE]
      m1 == [m EXCEPT !.memory = Append(@, r)]
      m2 == IF red THEN [m1 EXCEPT !.redundant = Append(@, c)]
                   ELSE [m1 EXCEPT !.irredundant = Append(@, c)]
      cur == m.stats.clauses.current + 1
  IN  [m2 EXCEPT !.stats.clauses.current = cur,
                 !.stats.clauses.max = IF cur > @ THEN cur ELSE @]

\* add_new_original_clause passing over an empty clause.
add_new_original_clause_skipping_empty(m) ==
  LET size == Len(m.clause) IN
  IF size = 0 THEN m
  ELSE IF size = 1 THEN
    LET unit == m.clause[1]
        tmp == val(m, unit)
    IN  IF tmp = 0 THEN assign(m, unit, 0)
        ELSE IF tmp < 0 THEN (IF ~m.unsat THEN learn_empty_clause(m) ELSE m)
        ELSE m
  ELSE Bind(new_clause(m, FALSE, 0), LAMBDA m1 : watch_clause(m1, Len(m1.memory)))

add_new_original_clause(m) ==
  LET size == Len(m.clause) IN
  IF size = 0 THEN [m EXCEPT !.unsat = TRUE]
  ELSE IF size = 1 THEN
    LET unit == m.clause[1]
        tmp == val(m, unit)
    IN  IF tmp = 0 THEN assign(m, unit, 0)
        ELSE IF tmp < 0 THEN (IF ~m.unsat THEN learn_empty_clause(m) ELSE m)
        ELSE m
  ELSE Bind(new_clause(m, FALSE, 0), LAMBDA m1 : watch_clause(m1, Len(m1.memory)))

new_learned_clause(m, g) ==
  Bind(new_clause(m, TRUE, g), LAMBDA m1 : watch_clause(m1, Len(m1.memory)))

delete_clause(m, c) ==
  [m EXCEPT !.stats.clauses.current = @ - 1, !.memory[c].freed = TRUE]

(***************************************************************************)
(* propagate.  FirstNonFalse is the scan 'for (k = 2; k < w.size && (v =   *)
(* val (lits[k])) < 0; k++)': the position it stops at, size + 1 if every  *)
(* literal from the third on is false.                                     *)
(***************************************************************************)
RECURSIVE FirstNonFalse(_, _, _, _)
FirstNonFalse(m, lits, k, size) ==
  IF k > size THEN k
  ELSE IF val(m, lits[k]) < 0 THEN FirstNonFalse(m, lits, k + 1, size)
  ELSE k

SetBlit(kept, b) == [kept EXCEPT ![Len(kept)].blit = b]

\* One pass of the inner loop body for the watch w of the list of -lit;
\* the result is the solver record and the watches kept so far (ws[0..j-1]).
propagate_watch(m, lit, w, kept0) ==
  LET kept == Append(kept0, w)
      b == val(m, w.blit)
  IN
  IF b > 0 THEN [m |-> m, kept |-> kept]
  ELSE IF w.size = 2 THEN
    IF b < 0 THEN [m |-> [m EXCEPT !.conflict = w.clause], kept |-> kept]
    ELSE [m |-> assign(m, w.blit, w.clause), kept |-> kept]
  ELSE
    LET c == w.clause
        lits0 == m.memory[c].literals
        lits == IF lits0[2] # neg(lit) THEN Swap(lits0, 1, 2) ELSE lits0
        m1 == [m EXCEPT !.memory[c].literals = lits,
                        !.hazard = IF m.memory[c].freed
                                   THEN @ \cup {"propagate reads a deleted clause"}
                                   ELSE @]
        u == val(m, lits[1])
        k == FirstNonFalse(m, lits, 3, w.size)
        v == IF k <= w.size THEN val(m, lits[k]) ELSE -1
    IN
    IF u > 0 THEN [m |-> m1, kept |-> SetBlit(kept, lits[1])]
    ELSE IF v > 0 THEN [m |-> m1, kept |-> SetBlit(kept, lits[k])]
    ELSE IF v = 0 THEN
      LET lits2 == Swap(lits, 2, k)
          m2 == [m1 EXCEPT !.memory[c].literals = lits2]
      IN  [m |-> watch_literal(m2, lits2[2], neg(lit), c), kept |-> kept0]
    ELSE IF u = 0 THEN [m |-> assign(m1, lits[1], c), kept |-> kept]
    ELSE [m |-> [m1 EXCEPT !.conflict = c], kept |-> kept]

\* The inner loop over the watches ws of -lit from position i on, and the
\* copy of the watches not visited that follows it.
RECURSIVE propagate_watches(_, _, _, _, _)
propagate_watches(m, lit, ws, i, kept) ==
  IF m.conflict # 0 \/ i > Len(ws)
  THEN [m EXCEPT !.all_literal_watches[neg(lit)] = kept \o SubSeq(ws, i, Len(ws))]
  ELSE Bind(propagate_watch(m, lit, ws[i], kept),
            LAMBDA r : propagate_watches(r.m, lit, ws, i + 1, r.kept))

RECURSIVE propagate_loop(_)
propagate_loop(m) ==
  IF m.conflict # 0 \/ m.propagate_next >= Len(m.trail) THEN m
  ELSE LET lit == m.trail[m.propagate_next + 1]
           m1 == [m EXCEPT !.stats.propagations = @ + 1, !.propagate_next = @ + 1]
       IN  Bind(propagate_watches(m1, lit, watches(m1, neg(lit)), 1, << >>),
                LAMBDA m2 : propagate_loop(m2))

propagate(m) ==
  Bind(propagate_loop(m), LAMBDA m1 :
    IF m1.conflict # 0 THEN [m1 EXCEPT !.stats.conflicts = @ + 1] ELSE m1)

(***************************************************************************)
(* VMTF queue.                                                             *)
(***************************************************************************)
dequeue(m, idx) ==
  LET v == m.vars[idx]
      m1 == IF v.prev # 0 THEN [m EXCEPT !.vars[v.prev].next = v.next]
                          ELSE [m EXCEPT !.queue.first = v.next]
  IN  IF v.next # 0 THEN [m1 EXCEPT !.vars[v.next].prev = v.prev]
                    ELSE [m1 EXCEPT !.queue.last = v.prev]

enqueue(m, idx) ==
  LET last == m.queue.last
      m1 == [m EXCEPT !.vars[idx].prev = last]
      m2 == IF last # 0 THEN [m1 EXCEPT !.vars[last].next = idx]
                        ELSE [m1 EXCEPT !.queue.first = idx]
  IN  [m2 EXCEPT !.queue.last = idx, !.vars[idx].next = 0]

\* The variable returned is queue.next of the result.
RECURSIVE next_decision_variable(_)
next_decision_variable(m) ==
  IF m.queue.next = 0
  THEN [m EXCEPT !.hazard = @ \cup {"next_decision_variable reads vals[0]"}]
  ELSE IF val(m, m.queue.next) # 0
  THEN Bind([m EXCEPT !.queue.next = var(m, m.queue.next).prev,
                      !.stats.searched = @ + 1],
            LAMBDA m1 : next_decision_variable(m1))
  ELSE m

\* bump_literal moving the variable to the end of the queue without giving
\* it a new timestamp.
bump_literal_unstamped(m, lit, uip) ==
  LET idx == vidx(lit)
      m1 == [m EXCEPT !.vars[idx].seen = FALSE, !.vars[idx].minimized = FALSE,
                      !.vars[idx].poison = FALSE]
      v == m1.vars[idx]
  IN  IF v.next = 0 THEN m1
      ELSE LET m2 == IF m1.queue.next = idx
                     THEN [m1 EXCEPT !.queue.next = IF v.prev # 0 THEN v.prev ELSE v.next]
                     ELSE m1
           IN  Bind(enqueue(dequeue(m2, idx), idx), LAMBDA m3 :
                 LET m4 == [m3 EXCEPT !.stats.bumped = @ + 1]
                 IN  IF idx # uip /\ m4.vals[idx] = 0
                     THEN [m4 EXCEPT !.queue.next = idx] ELSE m4)

bump_literal(m, lit, uip) ==
  LET idx == vidx(lit)
      m1 == [m EXCEPT !.vars[idx].seen = FALSE, !.vars[idx].minimized = FALSE,
                      !.vars[idx].poison = FALSE]
      v == m1.vars[idx]
  IN  IF v.next = 0 THEN m1
      ELSE LET m2 == IF m1.queue.next = idx
                     THEN [m1 EXCEPT !.queue.next = IF v.prev # 0 THEN v.prev ELSE v.next]
                     ELSE m1
           IN  Bind(enqueue(dequeue(m2, idx), idx), LAMBDA m3 :
                 LET m4 == [m3 EXCEPT !.stats.bumped = @ + 1,
                                      !.vars[idx].bumped = m3.stats.bumped + 1]
                 IN  IF idx # uip /\ m4.vals[idx] = 0
                     THEN [m4 EXCEPT !.queue.next = idx] ELSE m4)

RECURSIVE bump_literals(_, _, _, _)
bump_literals(m, lits, i, uip) ==
  IF i > Len(lits) THEN m
  ELSE Bind(bump_literal(m, lits[i], uip),
            LAMBDA m1 : bump_literals(m1, lits, i + 1, uip))

bump_and_clear_seen_literals(m, uip0) ==
  LET key == [l \in Range(m.seen.literals) |-> var(m, l).bumped]
      sorted == SortByKey(m.seen.literals, key)
      uip == abs(uip0)
  IN  Bind(sorted, LAMBDA s :
        [bump_literals([m EXCEPT !.seen.literals = s, !.analyzed = m.seen.literals],
                       s, 1, uip)
           EXCEPT !.seen.literals = << >>])

RECURSIVE clear_levels_loop(_, _)
clear_levels_loop(m, i) ==
  IF i > Len(m.seen.levels) THEN m
  ELSE LET l == m.seen.levels[i]
       IN  Bind(IF l + 1 <= Len(m.levels)
                THEN [m EXCEPT !.levels[l + 1].seen = 0]
                ELSE [m EXCEPT !.hazard = @ \cup {"clear_levels writes past the end of levels"}],
                LAMBDA m1 : clear_levels_loop(m1, i + 1))

clear_levels(m) == [clear_levels_loop(m, 1) EXCEPT !.seen.levels = << >>]

(***************************************************************************)
(* Conflict analysis.                                                      *)
(***************************************************************************)
bump_clause(m, c) ==
  IF ~m.memory[c].redundant THEN m
  ELSE [m EXCEPT !.memory[c].resolved = m.stats.conflicts,
                 !.ema.resolved.size = EMA_update(@, m.memory[c].size),
                 !.ema.resolved.glue = EMA_update(@, m.memory[c].glue)]

\* analyze_literal counting a level anew for every literal analyzed.
analyze_literal_recounting(m, lit) ==
  LET v == var(m, lit)
      idx == vidx(lit)
  IN  IF v.seen THEN [m |-> m, r |-> FALSE]
      ELSE IF v.level = 0 THEN [m |-> m, r |-> FALSE]
      ELSE LET m1 == IF v.level < m.level
                     THEN [m EXCEPT !.clause = Append(@, lit)] ELSE m
               m3 == [m1 EXCEPT !.seen.levels = Append(@, v.level),
                                !.levels[v.level + 1].seen = @ + 1,
                                !.vars[idx].seen = TRUE,
                                !.seen.literals = Append(@, lit)]
           IN  [m |-> m3, r |-> v.level = m.level]

\* The solver record after the call and the value returned.
\* analyze_literal counting the literals of every level as open.
analyze_literal_all_open(m, lit) ==
  LET v == var(m, lit)
      idx == vidx(lit)
  IN  IF v.seen THEN [m |-> m, r |-> FALSE]
      ELSE IF v.level = 0 THEN [m |-> m, r |-> FALSE]
      ELSE LET m1 == IF v.level < m.level
                     THEN [m EXCEPT !.clause = Append(@, lit)] ELSE m
               m2 == IF m1.levels[v.level + 1].seen = 0
                     THEN [m1 EXCEPT !.seen.levels = Append(@, v.level)] ELSE m1
               m3 == [m2 EXCEPT !.levels[v.level + 1].seen = @ + 1,
                                !.vars[idx].seen = TRUE,
                                !.seen.literals = Append(@, lit)]
           IN  [m |-> m3, r |-> TRUE]

analyze_literal(m, lit) ==
  LET v == var(m, lit)
      idx == vidx(lit)
  IN  IF v.seen THEN [m |-> m, r |-> FALSE]
      ELSE IF v.level = 0 THEN [m |-> m, r |-> FALSE]
      ELSE LET m1 == IF v.level < m.level
                     THEN [m EXCEPT !.clause = Append(@, lit)] ELSE m
               m2 == IF m1.levels[v.level + 1].seen = 0
                     THEN [m1 EXCEPT !.seen.levels = Append(@, v.level)] ELSE m1
               m3 == [m2 EXCEPT !.levels[v.level + 1].seen = @ + 1,
                                !.vars[idx].seen = TRUE,
                                !.seen.literals = Append(@, lit)]
           IN  [m |-> m3, r |-> v.level = m.level]

\* 'for (int j = 0; j < reason->size; j++) if (analyze_literal (..)) open++'
RECURSIVE analyze_reason(_, _, _, _)
analyze_reason(m, reason, j, open) ==
  IF j > m.memory[reason].size THEN [m |-> m, open |-> open]
  ELSE Bind(analyze_literal(m, m.memory[reason].literals[j]), LAMBDA a :
         analyze_reason(a.m, reason, j + 1, IF a.r THEN open + 1 ELSE open))

\* 'while (!var (uip = trail[--i]).seen)': the index the scan stops at, 0 if it
\* runs below the first trail entry (i counts the entries below the scan).
RECURSIVE scan_trail(_, _)
scan_trail(m, i) ==
  IF i = 0 THEN 0
  ELSE IF var(m, m.trail[i]).seen THEN i
  ELSE scan_trail(m, i - 1)

AnalyzeHazard(m, what) == [m EXCEPT !.hazard = @ \cup {what}]

\* The loop 'for (;;)' of analyze: the solver record at its break and the first
\* UIP found (0 after an access outside an object).
RECURSIVE analyze_loop(_, _, _, _)
analyze_loop(m, reason, open0, i0) ==
  IF reason = 0
  THEN [m |-> AnalyzeHazard(m, "analyze reads a null reason"), uip |-> 0]
  ELSE
  LET m0 == IF m.memory[reason].freed
            THEN AnalyzeHazard(m, "analyze reads a deleted clause") ELSE m
  IN  Bind(analyze_reason(m0, reason, 1, open0), LAMBDA a :
      Bind(scan_trail(a.m, i0), LAMBDA i :
      Bind([a.m EXCEPT !.scans = Append(@, [open |-> a.open, at |-> i])], LAMBDA m1 :
        IF i = 0
        THEN [m |-> AnalyzeHazard(m1, "analyze scans below the trail"), uip |-> 0]
        ELSE LET uip == m1.trail[i]
                 open == a.open - 1
             IN  IF open = 0 THEN [m |-> m1, uip |-> uip]
                 ELSE analyze_loop(m1, var(m1, uip).reason, open, i - 1))))

\* analyze from 'clause.push_back (-uip)' on, for one outcome 'sorted' of the
\* sort of the learned clause.
analyze_learn(m, uip, sorted) ==
  LET size == Len(m.clause)
      glue == Len(m.seen.levels)
  IN
  Bind([m EXCEPT !.ema.learned.glue.slow = EMA_update(@, glue),
                 !.ema.learned.glue.fast = EMA_update(@, glue)], LAMBDA m1 :
  Bind(IF size = 1
       THEN [trace_unit_clause(m1, neg(uip)) EXCEPT !.stats.learned.units = @ + 1]
       ELSE Bind(new_learned_clause([m1 EXCEPT !.clause = sorted], glue),
                 LAMBDA n : trace_add_clause(n, Len(n.memory))), LAMBDA m2 :
  LET driving_clause == IF size = 1 THEN 0 ELSE Len(m2.memory)
      jump == IF size = 1 THEN 0 ELSE var(m2, m2.clause[2]).level
  IN
  Bind([m2 EXCEPT !.ema.jump = EMA_update(@, jump)], LAMBDA m3 :
  Bind(backtrack(m3, jump), LAMBDA m4 :
  Bind(assign(m4, neg(uip), driving_clause), LAMBDA m5 :
  Bind(bump_and_clear_seen_literals(m5, uip), LAMBDA m6 :
  clear_levels([m6 EXCEPT !.clause = << >>])))))))

\* analyze without the sort of the learned clause: the complement of the
\* first UIP stays the last literal.
analyze_unsorted(m) ==
  IF m.level = 0 THEN { [learn_empty_clause(m) EXCEPT !.conflict = 0] }
  ELSE Bind(bump_clause(m, m.conflict), LAMBDA m1 :
       Bind(analyze_loop([m1 EXCEPT !.scans = << >>], m1.conflict, 0, Len(m1.trail)),
            LAMBDA a :
         IF a.uip = 0 THEN { [a.m EXCEPT !.conflict = 0, !.pc = "abort"] }
         ELSE LET m2 == [a.m EXCEPT !.clause = Append(@, neg(a.uip))]
              IN  { [analyze_learn(m2, a.uip, m2.clause) EXCEPT !.conflict = 0] }))

\* analyze taking a conflict at any level for one at the root level.
analyze_hasty(m) == { [learn_empty_clause(m) EXCEPT !.conflict = 0] }

\* Every state analyze may return in: one for each order the sort of the
\* learned clause may leave literals of the same level in.
analyze(m) ==
  IF m.level = 0 THEN { [learn_empty_clause(m) EXCEPT !.conflict = 0] }
  ELSE Bind(bump_clause(m, m.conflict), LAMBDA m1 :
       Bind(analyze_loop([m1 EXCEPT !.scans = << >>], m1.conflict, 0, Len(m1.trail)),
            LAMBDA a :
         IF a.uip = 0 THEN { [a.m EXCEPT !.conflict = 0, !.pc = "abort"] }
         ELSE LET m2 == [a.m EXCEPT !.clause = Append(@, neg(a.uip))]
                  key == [l \in Range(m2.clause) |-> 0 - var(m2, l).level]
              IN  { [analyze_learn(m2, a.uip, sorted) EXCEPT !.conflict = 0] :
                      sorted \in SortOutcomes(m2.clause, key) }))

\* satisfied never seeing a full assignment.
satisfied_never(m) == FALSE

\* satisfied with the count of assigned variables off by one.
satisfied_early(m) == Len(m.trail) + 1 >= m.max_var

satisfied(m) == Len(m.trail) = m.max_var

(***************************************************************************)
(* Restart.                                                                *)
(***************************************************************************)
\* The solver record after the call and the value returned.
\* restarting without the comparison of the two glue averages.
restarting_blindly(m) ==
  IF ~m.opts.restart THEN [m |-> m, r |-> FALSE]
  ELSE IF m.stats.conflicts <= m.limits.restart.conflicts THEN [m |-> m, r |-> FALSE]
  ELSE
  LET next == m.stats.conflicts + m.opts.restartint
  IN  IF m.opts.restartdelay
         /\ DyLess(DyInt(m.level), DyMul(m.opts.restartdelaylim, m.ema.jump.value))
      THEN [m |-> [m EXCEPT !.limits.restart.conflicts = next,
                            !.stats.delayed = @ + 1], r |-> FALSE]
      ELSE [m |-> m, r |-> TRUE]

restarting(m) ==
  IF ~m.opts.restart THEN [m |-> m, r |-> FALSE]
  ELSE IF m.stats.conflicts <= m.limits.restart.conflicts THEN [m |-> m, r |-> FALSE]
  ELSE
  LET slow == m.ema.learned.glue.slow.value
      fast == m.ema.learned.glue.fast.value
      limit == DyMul(DyAdd(DyInt(1), m.opts.restartmargin), slow)
      next == m.stats.conflicts + m.opts.restartint
  IN  IF DyLess(fast, limit)
      THEN [m |-> [m EXCEPT !.limits.restart.conflicts = next], r |-> FALSE]
      ELSE IF m.opts.restartdelay
              /\ DyLess(DyInt(m.level), DyMul(m.opts.restartdelaylim, m.ema.jump.value))
      THEN [m |-> [m EXCEPT !.limits.restart.conflicts = next,
                            !.stats.delayed = @ + 1], r |-> FALSE]
      ELSE [m |-> m, r |-> TRUE]

RECURSIVE reusetrail_loop(_, _, _)
reusetrail_loop(m, limit, r) ==
  IF r < m.level /\ var(m, m.levels[r + 2].decision).bumped > limit
  THEN reusetrail_loop(m, limit, r + 1) ELSE r

\* reusetrail keeping the whole trail.
reusetrail_whole(m) == [m |-> m, r |-> m.level]

\* The solver record after the call and the value returned.
reusetrail(m) ==
  IF ~m.opts.reusetrail THEN [m |-> m, r |-> 0]
  ELSE Bind(next_decision_variable(m), LAMBDA m1 :
         LET limit == IF m1.queue.next = 0 THEN 0 ELSE var(m1, m1.queue.next).bumped
         IN  Bind(reusetrail_loop(m1, limit, 0), LAMBDA r :
               [m |-> IF r # 0 THEN [m1 EXCEPT !.stats.reused = @ + 1] ELSE m1, r |-> r]))

\* restart leaving the restart limit as it is.
restart_keeping_limit(m) ==
  Bind(reusetrail([m EXCEPT !.stats.restarts = @ + 1]), LAMBDA t :
    backtrack(t.m, t.r))

restart(m) ==
  Bind(reusetrail([m EXCEPT !.stats.restarts = @ + 1]), LAMBDA t :
  Bind(backtrack(t.m, t.r), LAMBDA m2 :
    [m2 EXCEPT !.limits.restart.conflicts = m2.stats.conflicts + m2.opts.restartint]))

(***************************************************************************)
(* Reduce.                                                                 *)
(***************************************************************************)
reducing(m) ==
  IF ~m.opts.reduce THEN FALSE
  ELSE m.stats.conflicts >= m.limits.reduce.conflicts

HasReason(m, lit) == var(m, lit).level # 0 /\ var(m, lit).reason # 0

RECURSIVE set_reasons(_, _, _)
set_reasons(m, i, flag) ==
  IF i > Len(m.trail) THEN m
  ELSE IF ~HasReason(m, m.trail[i]) THEN set_reasons(m, i + 1, flag)
  ELSE LET c == var(m, m.trail[i]).reason
       IN  Bind([m EXCEPT !.memory[c].reason = flag,
                          !.hazard = IF m.memory[c].freed
                                     THEN @ \cup {"reduce writes a deleted reason clause"}
                                     ELSE @],
                LAMBDA m1 : set_reasons(m1, i + 1, flag))

\* protect_reasons flagging no clause.
protect_reasons_idle(m) == m

protect_reasons(m) == set_reasons(m, 1, TRUE)

unprotect_reasons(m) == set_reasons(m, 1, FALSE)

\* clause_root_level_satisfied taking every clause for satisfied.
clause_root_level_satisfied_always(m, c) == TRUE

\* clause_root_level_satisfied looking at the first literal only.
clause_root_level_satisfied_first(m, c) ==
  fixed(m, m.memory[c].literals[1]) > 0

clause_root_level_satisfied(m, c) ==
  \E i \in 1..m.memory[c].size : fixed(m, m.memory[c].literals[i]) > 0

RECURSIVE mark_satisfied_clauses(_, _, _)
mark_satisfied_clauses(m, clauses, i) ==
  IF i > Len(clauses) THEN m
  ELSE LET c == clauses[i]
       IN  Bind(IF ~m.memory[c].reason /\ clause_root_level_satisfied(m, c)
                THEN [m EXCEPT !.memory[c].garbage = TRUE] ELSE m,
                LAMBDA m1 : mark_satisfied_clauses(m1, clauses, i + 1))

\* Orders clauses as reduce_less_than does: resolved ascending, then glue
\* descending, then size descending (ReduceKeyBase exceeds every glue and size).
ReduceKeyBase(m) ==
  LET S == {0} \cup UNION { {m.memory[c].size, m.memory[c].glue} : c \in DOMAIN m.memory }
  IN  1 + CHOOSE x \in S : \A y \in S : y <= x

reduce_key(m, c) ==
  LET B == ReduceKeyBase(m)
  IN  (m.memory[c].resolved * B + (B - 1 - m.memory[c].glue)) * B
        + (B - 1 - m.memory[c].size)

\* reduce_candidate taking, with reducedynamic, the clauses below both
\* averages instead of leaving them out.
reduce_candidate_below(m, c) ==
  /\ ~m.memory[c].reason
  /\ ~m.memory[c].garbage
  /\ ~(m.memory[c].glue <= 2)
  /\ ~(m.memory[c].size <= 3)
  /\ ~(m.memory[c].resolved > m.limits.reduce.resolved)
  /\ (m.opts.reducedynamic =>
        /\ DyLess(DyInt(m.memory[c].glue), m.ema.resolved.glue.value)
        /\ DyLess(DyInt(m.memory[c].size), m.ema.resolved.size.value))

reduce_candidate(m, c) ==
  /\ ~m.memory[c].reason
  /\ ~m.memory[c].garbage
  /\ ~(m.memory[c].glue <= 2)
  /\ ~(m.memory[c].size <= 3)
  /\ ~(m.memory[c].resolved > m.limits.reduce.resolved)
  /\ ~(/\ m.opts.reducedynamic
       /\ DyLess(DyInt(m.memory[c].glue), m.ema.resolved.glue.value)
       /\ DyLess(DyInt(m.memory[c].size), m.ema.resolved.size.value))

\* 'work' before the sort.
reduce_work(m) == SelectSeq(m.redundant, LAMBDA c : reduce_candidate(m, c))

\* mark_redundant_clauses marking every candidate instead of half of them.
mark_redundant_clauses_all(m, sorted) ==
  [m EXCEPT !.work = sorted,
            !.memory = [c \in DOMAIN @ |->
     IF c \in Range(sorted) THEN [@[c] EXCEPT !.garbage = TRUE] ELSE @[c]]]

\* mark_redundant_clauses marking the second half of 'work'.
mark_redundant_clauses_second_half(m, sorted) ==
  LET target == Len(sorted) \div 2
  IN  [m EXCEPT !.work = sorted,
                !.memory = [c \in DOMAIN @ |->
         IF \E i \in (Len(sorted) - target + 1)..Len(sorted) : sorted[i] = c
         THEN [@[c] EXCEPT !.garbage = TRUE] ELSE @[c]]]

\* mark_redundant_clauses for one outcome 'sorted' of the sort of 'work'.
mark_redundant_clauses(m, sorted) ==
  LET target == Len(sorted) \div 2
  IN  [m EXCEPT !.work = sorted,
                !.memory = [c \in DOMAIN @ |->
         IF \E i \in 1..target : sorted[i] = c THEN [@[c] EXCEPT !.garbage = TRUE] ELSE @[c]]]

\* flush_watches emptying the lists of fixed variables only.
flush_watches_fixed_only(m) ==
  [m EXCEPT !.all_literal_watches = [l \in DOMAIN @ |->
              IF fixed(m, vidx(l)) # 0 THEN << >> ELSE @[l]]]

flush_watches(m) ==
  LET kept(ws) == SelectSeq(ws, LAMBDA w : ~m.memory[w.clause].garbage)
      stale == \E l \in DOMAIN m.all_literal_watches :
                 /\ fixed(m, vidx(l)) = 0
                 /\ \E i \in 1..Len(m.all_literal_watches[l]) :
                      m.memory[m.all_literal_watches[l][i].clause].freed
  IN  [m EXCEPT !.all_literal_watches = [l \in DOMAIN @ |->
                   IF fixed(m, vidx(l)) # 0 THEN << >> ELSE kept(@[l])],
                !.hazard = IF stale THEN @ \cup {"flush_watches reads a deleted clause"}
                           ELSE @]

RECURSIVE collect_loop(_, _, _, _)
collect_loop(m, clauses, i, kept) ==
  IF i > Len(clauses) THEN [m |-> m, kept |-> kept]
  ELSE LET c == clauses[i]
       IN  IF ~m.memory[c].garbage THEN collect_loop(m, clauses, i + 1, Append(kept, c))
           ELSE Bind(delete_clause([m EXCEPT !.stats.reduce.clauses = @ + 1], c),
                     LAMBDA m1 : collect_loop(m1, clauses, i + 1, kept))

collect_irredundant(m) ==
  Bind(collect_loop(m, m.irredundant, 1, << >>),
       LAMBDA r : [r.m EXCEPT !.irredundant = r.kept])

collect_redundant(m) ==
  Bind(collect_loop(m, m.redundant, 1, << >>),
       LAMBDA r : [r.m EXCEPT !.redundant = r.kept])

report(m) == [m EXCEPT !.stats.reports = @ + 1]

\* reduce_finish leaving the increment of the reduce interval as it is.
reduce_finish_fixed_interval(m, sorted, grew) ==
  Bind(mark_redundant_clauses(m, sorted), LAMBDA m1 :
  Bind(unprotect_reasons(m1), LAMBDA m2 :
  Bind(flush_watches(m2), LAMBDA m3 :
  Bind(IF grew THEN collect_irredundant(m3) ELSE m3, LAMBDA m4 :
  Bind(collect_redundant(m4), LAMBDA m5 :
    LET i == m5.inc.reduce.conflicts
    IN  report([m5 EXCEPT !.limits.reduce.conflicts = m5.stats.conflicts + i,
                          !.limits.reduce.resolved = m5.stats.conflicts,
                          !.limits.reduce.fixed = m5.stats.fixed]))))))

\* reduce after the sort of 'work' ended as 'sorted'.
reduce_finish(m, sorted, grew) ==
  Bind(mark_redundant_clauses(m, sorted), LAMBDA m1 :
  Bind(unprotect_reasons(m1), LAMBDA m2 :
  Bind(flush_watches(m2), LAMBDA m3 :
  Bind(IF grew THEN collect_irredundant(m3) ELSE m3, LAMBDA m4 :
  Bind(collect_redundant(m4), LAMBDA m5 :
    LET i == m5.inc.reduce.conflicts + m5.opts.reduceinc
    IN  report([m5 EXCEPT !.inc.reduce.conflicts = i,
                          !.limits.reduce.conflicts = m5.stats.conflicts + i,
                          !.limits.reduce.resolved = m5.stats.conflicts,
                          !.limits.reduce.fixed = m5.stats.fixed]))))))

\* Every state reduce may return in: one for each order the sort of the
\* candidates may leave clauses that compare equal in.
reduce(m) ==
  Bind(protect_reasons([m EXCEPT !.stats.reduce.count = @ + 1,
                                 !.reduced_at = Append(@, m.stats.conflicts)]), LAMBDA m1 :
    LET grew == m1.limits.reduce.fixed < m1.stats.fixed
    IN
    Bind(IF grew
         THEN Bind(mark_satisfied_clauses(m1, m1.irredundant, 1),
                   LAMBDA n : mark_satisfied_clauses(n, m1.redundant, 1))
         ELSE m1, LAMBDA m2 :
    Bind(reduce_work(m2), LAMBDA unsorted :
      LET key == [c \in Range(unsorted) |-> reduce_key(m2, c)]
      IN  { reduce_finish(m2, w, grew) : w \in SortOutcomes(unsorted, key) })))

(***************************************************************************)
(* Decide and iterate.                                                     *)
(***************************************************************************)
\* decide recording the variable decided instead of the decision literal.
decide_recording_variable(m) ==
  Bind(next_decision_variable([m EXCEPT !.level = @ + 1, !.stats.decisions = @ + 1]),
       LAMBDA m2 :
    LET idx == m2.queue.next
    IN  IF idx = 0 THEN [m2 EXCEPT !.pc = "abort"]
        ELSE LET decision == m2.phases[idx] * idx
             IN  Bind([m2 EXCEPT !.levels = Append(@, Level(idx))],
                      LAMBDA m3 : assign(m3, decision, 0)))

decide(m) ==
  Bind(next_decision_variable([m EXCEPT !.level = @ + 1, !.stats.decisions = @ + 1]),
       LAMBDA m2 :
    LET idx == m2.queue.next
    IN  IF idx = 0 THEN [m2 EXCEPT !.pc = "abort"]
        ELSE LET decision == m2.phases[idx] * idx
             IN  Bind([m2 EXCEPT !.levels = Append(@, Level(decision))],
                      LAMBDA m3 : assign(m3, decision, 0)))

iterate(m) == report([m EXCEPT !.iterating = FALSE])

(***************************************************************************)
(* Initialisation and the DIMACS parser.                                   *)
(***************************************************************************)
\* init_vmtf_queue leaving the cursor at the first variable of the queue.
init_vmtf_queue_cursor_first(m) ==
  LET V == m.max_var
  IN  [m EXCEPT !.vars = [i \in DOMAIN @ |->
                   [@[i] EXCEPT !.prev = i - 1,
                                !.next = IF i < V THEN i + 1 ELSE 0,
                                !.bumped = m.stats.bumped + i]],
                !.stats.bumped = @ + V,
                !.queue = [first |-> IF V > 0 THEN 1 ELSE @.first,
                           last |-> V, next |-> IF V > 0 THEN 1 ELSE 0]]

init_vmtf_queue(m) ==
  LET V == m.max_var
  IN  [m EXCEPT !.vars = [i \in DOMAIN @ |->
                   [@[i] EXCEPT !.prev = i - 1,
                                !.next = IF i < V THEN i + 1 ELSE 0,
                                !.bumped = m.stats.bumped + i]],
                !.stats.bumped = @ + V,
                !.queue = [first |-> IF V > 0 THEN 1 ELSE @.first,
                           last |-> V, next |-> V]]

init_variables(m) ==
  LET V == m.max_var
      m1 == [m EXCEPT !.vals = [i \in 1..V |-> 0],
                      !.phases = [i \in 1..V |-> -1],
                      !.vars = [i \in 1..V |-> Var],
                      !.all_literal_watches = [l \in Lits(V) |-> << >>]]
  IN  [init_vmtf_queue(m1) EXCEPT !.levels = Append(@, Level(0))]

lit_less_than_key(S) == [l \in S |-> 2 * abs(l) + (IF l < 0 THEN 0 ELSE 1)]

\* The loop of tautological from position i on, with j literals kept in
\* 'kept'; prev is the local the loop compares with.  The result is the
\* value returned and the clause left behind.
RECURSIVE tautological_loop(_, _, _, _)
tautological_loop(cl, i, kept, prev) ==
  IF i > Len(cl) THEN [r |-> FALSE, clause |-> kept]
  ELSE LET lit == cl[i]
       IN  IF lit = neg(prev) THEN [r |-> TRUE, clause |-> kept \o SubSeq(cl, Len(kept) + 1, Len(cl))]
           ELSE tautological_loop(cl, i + 1,
                                  IF lit # prev THEN Append(kept, lit) ELSE kept, prev)

\* The solver record after the call and the value returned.
tautological(m) ==
  Bind(SortByKey(m.clause, lit_less_than_key(Range(m.clause))), LAMBDA sorted :
  Bind(tautological_loop(sorted, 1, << >>, 0), LAMBDA t :
    [m |-> [m EXCEPT !.clause = t.clause], r |-> t.r]))

\* The body of the parse loop for one clause line (its literals and the 0).
parse_clause(m, line) ==
  Bind(tautological([m EXCEPT !.clause = line]), LAMBDA t :
  Bind(IF ~t.r THEN add_new_original_clause(t.m) ELSE t.m, LAMBDA m1 :
    [m1 EXCEPT !.clause = << >>, !.parsed_clauses = @ + 1]))

init_solving(m) ==
  [m EXCEPT !.limits.restart.conflicts = m.opts.restartint,
            !.limits.reduce.conflicts = m.opts.reduceinit,
            !.inc.reduce.conflicts = m.opts.reduceinit,
            !.ema = [learned |-> [glue |-> [fast |-> EMA(m.opts.emagluefast),
                                            slow |-> EMA(m.opts.emaglueslow)]],
                     resolved |-> [glue |-> EMA(m.opts.emaresolved),
                                   size |-> EMA(m.opts.emaresolved)],
                     jump |-> EMA(m.opts.emajump)]]

(***************************************************************************)
(* The inputs: DIMACS files and option values.                             *)
(***************************************************************************)
\* Every clause line of at most L literals over the variables 1..V.
ClauseLines(V, L) == UNION { [1..n -> Lits(V)] : n \in 0..L }

\* The lines whose variables strictly decrease (no variable twice).
CleanLines(V, L) ==
  { c \in ClauseLines(V, L) : \A i \in 1..(Len(c) - 1) : abs(c[i]) > abs(c[i + 1]) }

\* An injective numbering of the lines over 1..MaxVar, to list a set of lines once.
RECURSIVE LineCode(_)
LineCode(c) ==
  IF c = << >> THEN 0
  ELSE (Head(c) + MaxVar + 1) + (2 * MaxVar + 2) * LineCode(Tail(c))

\* The sequences of n different clean lines, in the order of their numbers.
RECURSIVE LineSets(_)
LineSets(n) ==
  IF n = 0 THEN { << >> }
  ELSE UNION { { Append(f, c) : c \in { d \in CleanLines(MaxVar, MaxLen) :
                                          f = << >> \/ LineCode(d) > LineCode(Last(f)) } } :
               f \in LineSets(n - 1) }

File(V, lines) == [max_var |-> V, clauses |-> lines]

\* One clause line of any shape: duplicates, both polarities, any order.
SingleInputs == { File(MaxVar, << c >>) : c \in ClauseLines(MaxVar, MaxLen) }

\* Several different lines without repeated variables.
MultiInputs == { File(MaxVar, f) : f \in UNION { LineSets(n) : n \in 2..MaxClauses } }

EnumeratedInputs == SingleInputs \cup MultiInputs

\* Fixed inputs: the scenarios of the documentation and formulas that take
\* the search through conflicts above the root level, learned clauses with
\* more than two literals, restarts and reductions; formulas in which reduce
\* meets clauses satisfied at the root level above level 0, learned clauses
\* satisfied at the root level, long learned clauses of high glue, a
\* second restart with the fast glue average above the slow one, and a
\* reduce with three candidates.
PresetInputs ==
  { File(0, << >>), File(0, << << >> >>),
    File(1, << <<1>> >>), File(1, << <<1>>, <<-1>> >>),
    File(3, << <<1, -1, 2>> >>), File(3, << <<1, 2>>, <<-1>> >>),
    File(4, << <<-1>>, <<-1, -2>>, <<2, 3>>, <<4, 3, -2>> >>),
    File(5, << <<5, -1>>, <<1, -3, 4, -2>>, <<4, 3>>, <<2, 1>> >>),
    File(3, << <<2, 1>>, <<3, -1, -2>>, <<2, 3, -1>>, <<1, -2>> >>),
    File(6, << <<3, 1, -2>>, <<5, 1, 2>>, <<-2, -1>>, <<2, -1, 6, 3, 4>> >>),
    File(7, << <<-4, -6>>, <<-1, -2>>, <<6, 4, -2>>, <<-3, -1, 6>>, <<2, -4, -1>>,
               <<-3, 2, 1>>, <<-1, 4, 3>>, <<5, -3, -4, 1>>, <<5, 3, 1, 7>> >>),
    File(2, << <<1, 2>>, <<-1, 2>>, <<1, -2>>, <<-1, -2>> >>),
    File(3, << <<1, 2>>, <<-2, 3>>, <<-1, -3>> >>),
    File(3, << <<2, 3, -1>>, <<-2>>, <<1>> >>),
    File(3, << <<1, 2>>, <<-1, 2>>, <<-2, 3>>, <<2, 3>> >>),
    File(3, << <<3, -2>>, <<-1>>, <<2, 3, 1>>, <<2, -3, -1>>, <<3, -2>>, <<-2, -3>>,
               <<2, -3>> >>),
    File(4, << <<-3, -2>>, <<3>>, <<2, -4, -3>>, <<4, 2>> >>),
    File(6, << <<-3, -1, 5, 6>>, <<3, 2>>, <<3, -2, 6, 5>>, <<-6, 4, -2>> >>),
    File(5, << <<2, 5>>, <<-3, -2, 1>>, <<-2, 5>>, <<-1, 3>>, <<3, 1, -2, 4>>,
               <<4, -5, 2, -3>>, <<-1, -3>>, <<-3, 4, -2, -5>>, <<-1, -2, -3, 4>> >>),
    File(6, << <<-4, 3>>, <<-2, 5, -3>>, <<2, 1, 5>>, <<-5, 3, 1, 4>>, <<4, -1>>,
               <<-1, -6>>, <<-3, 2, 6>>, <<1, -2>> >>),
    File(8, << <<-3, -1>>, <<6, -4, -3>>, <<-4, -1>>, <<2, 5, 1>>, <<4, -1, 3, 8>>,
               <<2, 1>>, <<-2, 3, 7>>, <<-3, 4, 1>> >>) }

Inputs == EnumeratedInputs \cup PresetInputs

Half == Dy(1, 1)

Quarter == Dy(1, 2)

\* Option values within the ranges of OPTIONS, small enough for restarts and
\* reductions to happen within a few conflicts.
Eager(rst, reuse, red) ==
  [emagluefast |-> Half, emaglueslow |-> Quarter, emajump |-> Quarter,
   emaresolved |-> Quarter, reduce |-> red, reducedynamic |-> FALSE,
   reduceinc |-> 1, reduceinit |-> 0, restart |-> rst, restartdelay |-> FALSE,
   restartdelaylim |-> Half, restartint |-> 1, restartmargin |-> DyInt(0),
   reusetrail |-> reuse, proof |-> rst]

Careful ==
  [emagluefast |-> Half, emaglueslow |-> Quarter, emajump |-> Quarter,
   emaresolved |-> Quarter, reduce |-> TRUE, reducedynamic |-> TRUE,
   reduceinc |-> 2, reduceinit |-> 1, restart |-> TRUE, restartdelay |-> TRUE,
   restartdelaylim |-> Half, restartint |-> 2, restartmargin |-> Quarter,
   reusetrail |-> TRUE, proof |-> TRUE]

MainOptions == { Eager(TRUE, TRUE, TRUE), Eager(FALSE, FALSE, FALSE), Careful }

AllOptions ==
  { Eager(a, b, c) : a \in BOOLEAN, b \in BOOLEAN, c \in BOOLEAN } \cup { Careful }

(***************************************************************************)
(* The state after the static initialisers, before main reads the input.   *)
(***************************************************************************)
Statics ==
  /\ proof_file = opts.proof
  /\ proof = << >>
  /\ pc = "header" /\ res = 0 /\ parsed_clauses = 0
  /\ max_var = 0 /\ vars = << >> /\ vals = << >> /\ phases = << >>
  /\ all_literal_watches = << >>
  /\ queue = [first |-> 0, last |-> 0, next |-> 0]
  /\ unsat = FALSE /\ level = 0 /\ levels = << >>
  /\ propagate_next = 0 /\ trail = << >> /\ clause = << >>
  /\ memory = << >> /\ irredundant = << >> /\ redundant = << >>
  /\ iterating = FALSE
  /\ seen = [literals |-> << >>, levels |-> << >>]
  /\ conflict = 0
  /\ stats = [conflicts |-> 0, decisions |-> 0, restarts |-> 0, reused |-> 0,
              delayed |-> 0, reports |-> 0, propagations |-> 0, bumped |-> 0,
              searched |-> 0, reduce |-> [count |-> 0, clauses |-> 0],
              clauses |-> [current |-> 0, max |-> 0],
              learned |-> [units |-> 0], fixed |-> 0]
  /\ ema = [learned |-> [glue |-> [fast |-> EMA(DyInt(0)), slow |-> EMA(DyInt(0))]],
            resolved |-> [glue |-> EMA(DyInt(0)), size |-> EMA(DyInt(0))],
            jump |-> EMA(DyInt(0))]
  /\ limits = [reduce |-> [conflicts |-> 0, resolved |-> 0, fixed |-> 0],
               restart |-> [conflicts |-> 0]]
  /\ inc = [reduce |-> [conflicts |-> 0]]
  /\ branch = ""
  /\ hazard = {}
  /\ work = << >>
  /\ reduced_at = << >>
  /\ analyzed = << >>
  /\ scans = << >>

Init ==
  /\ \/ dimacs_file \in EnumeratedInputs /\ opts \in MainOptions
     \/ dimacs_file \in PresetInputs /\ opts \in AllOptions
  /\ Statics
  /\ average = EMA(DyInt(0)) /\ fed = << >>

(***************************************************************************)
(* main: parse_dimacs, then solve.                                         *)
(***************************************************************************)
\* parse_dimacs up to and including init_variables
ParseHeader ==
  /\ pc = "header"
  /\ \E m0 \in { M } :
     \E m \in { init_variables([m0 EXCEPT !.max_var = dimacs_file.max_var, !.pc = "parse"]) } :
       Set(m)

\* one clause line
ParseClause ==
  /\ pc = "parse"
  /\ parsed_clauses < Len(dimacs_file.clauses)
  /\ \E m0 \in { M } :
     \E m \in { parse_clause(m0, dimacs_file.clauses[parsed_clauses + 1]) } : Set(m)

\* end of file, and solve up to the call of search
Solve ==
  /\ pc = "parse"
  /\ parsed_clauses = Len(dimacs_file.clauses)
  /\ \E m \in { init_solving([M EXCEPT !.pc = "search"]) } : Set(m)

(***************************************************************************)
(* search: one iteration of its loop is SearchUnsat, or Propagate followed *)
(* by the branch taken on what propagate returned.                         *)
(***************************************************************************)
Took(m, b, next) == [m EXCEPT !.branch = b, !.pc = IF @ = "abort" THEN @ ELSE next]

SearchUnsat ==
  /\ pc = "search" /\ unsat
  /\ \E m \in { [M EXCEPT !.res = 20, !.pc = "done", !.branch = "unsat"] } : Set(m)

Propagate ==
  /\ pc = "search" /\ ~unsat
  /\ stats.conflicts < MaxConflicts
  /\ \E m0 \in { M } :
     \E m \in { [propagate(m0) EXCEPT !.pc = "propagated"] } : Set(m)

Analyze ==
  /\ pc = "propagated" /\ conflict # 0
  /\ \E m0 \in { M } : \E m \in analyze(m0) : Set(Took(m, "analyze", "search"))

Iterate ==
  /\ pc = "propagated" /\ conflict = 0 /\ iterating
  /\ \E m \in { iterate(M) } : Set(Took(m, "iterate", "search"))

SearchSat ==
  /\ pc = "propagated" /\ conflict = 0 /\ ~iterating /\ satisfied(M)
  /\ \E m \in { [M EXCEPT !.res = 10, !.pc = "done", !.branch = "sat"] } : Set(m)

Restart ==
  /\ pc = "propagated" /\ conflict = 0 /\ ~iterating /\ ~satisfied(M)
  /\ \E t \in { restarting(M) } :
       /\ t.r
       /\ \E m \in { restart(t.m) } : Set(Took(m, "restart", "search"))

Reduce ==
  /\ pc = "propagated" /\ conflict = 0 /\ ~iterating /\ ~satisfied(M)
  /\ \E t \in { restarting(M) } :
       /\ ~t.r /\ reducing(t.m)
       /\ \E m \in reduce(t.m) : Set(Took(m, "reduce", "search"))

\* The last branch of the search loop taken without the tests before it.
Decide_untested ==
  /\ pc = "propagated" /\ conflict = 0
  /\ \E t \in { restarting(M) } :
       \E m \in { decide(t.m) } : Set(Took(m, "decide", "search"))

Decide ==
  /\ pc = "propagated" /\ conflict = 0 /\ ~iterating /\ ~satisfied(M)
  /\ \E t \in { restarting(M) } :
       /\ ~t.r /\ ~reducing(t.m)
       /\ \E m \in { decide(t.m) } : Set(Took(m, "decide", "search"))

Next ==
  \/ ParseHeader \/ ParseClause \/ Solve
  \/ SearchUnsat \/ Propagate \/ Analyze \/ Iterate \/ SearchSat
  \/ Restart \/ Reduce \/ Decide

Spec == Init /\ [][Next]_vars_all

\* main runs in one thread: a step that can be taken is taken.
FairSpec == Spec /\ WF_vars_all(Next)

(***************************************************************************)
(* An EMA object on its own: constructed with any alpha the constructor    *)
(* accepts, then updated with any observations.                            *)
(***************************************************************************)
\* 'assert (0 <= alpha), assert (alpha <= 1)'
Alphas == { DyInt(0), Dy(1, 3), Dy(1, 2), Dy(3, 3), Dy(1, 1), DyInt(1) }

Observations == 0..MaxObservation

EmaInit ==
  /\ dimacs_file = File(0, << >>) /\ opts = Careful
  /\ Statics
  /\ average \in { EMA(a) : a \in Alphas }
  /\ fed = << >>

Solver == << dimacs_file, proof_file, proof, opts, pc, res, parsed_clauses,
  max_var, vars, vals, phases, all_literal_watches, queue, unsat, level,
  levels, propagate_next, trail, clause, memory, irredundant, redundant,
  iterating, seen, conflict, stats, ema, limits, inc, branch, hazard, work,
  reduced_at, analyzed, scans >>

\* update with any observation
Feed ==
  /\ Len(fed) < MaxFed
  /\ \E y \in Observations :
       /\ average' = EMA_update(average, y)
       /\ fed' = Append(fed, y)
  /\ UNCHANGED Solver

\* update with the observation of all updates before
FeedSame ==
  /\ fed # << >> /\ Len(fed) >= MaxFed /\ Len(fed) < MaxSame
  /\ \A i \in 1..Len(fed) : fed[i] = fed[1]
  /\ average' = EMA_update(average, fed[1])
  /\ fed' = Append(fed, fed[1])
  /\ UNCHANGED Solver

EmaNext == Feed \/ FeedSame

EmaSpec == EmaInit /\ [][EmaNext]_vars_all

(***************************************************************************)
(* Notions the properties below are stated with.                           *)
(***************************************************************************)
\* The literal lit is true under the total assignment a.
Holds(a, lit) == IF lit < 0 THEN a[neg(lit)] = -1 ELSE a[lit] = 1

\* Brute force: some assignment of the variables 1..max_var makes a literal
\* of every clause line of the file f true.
Satisfiable(f) ==
  \E a \in [1..f.max_var -> {-1, 1}] :
    \A i \in 1..Len(f.clauses) : \E j \in 1..Len(f.clauses[i]) : Holds(a, f.clauses[i][j])

\* The input has an empty clause line.
HasEmptyClause == \E i \in 1..Len(dimacs_file.clauses) : dimacs_file.clauses[i] = << >>

\* The clause line holds a literal and its complement.
Tautology(line) == \E j, k \in 1..Len(line) : line[j] = neg(line[k])

\* Clauses neither deleted nor marked garbage, and those of more than two literals.
Live(c) == ~memory[c].freed /\ ~memory[c].garbage

LongLive == { c \in 1..Len(memory) : Live(c) /\ memory[c].size > 2 }

HasTrueLiteral(c) == \E k \in 1..memory[c].size : val(M, memory[c].literals[k]) > 0

UnassignedLiterals(c) ==
  { memory[c].literals[k] : k \in { j \in 1..memory[c].size : val(M, memory[c].literals[j]) = 0 } }

\* The watches of clause c: pairs of the literal watched and the position in
\* the watch list of that literal.
WatchesOf(c) ==
  { w \in UNION { {l} \X (1..Len(all_literal_watches[l])) : l \in DOMAIN all_literal_watches } :
      all_literal_watches[w[1]][w[2]].clause = c }

BlitOf(w) == all_literal_watches[w[1]][w[2]].blit

\* parse_dimacs is between two clause lines, or search is at the top of its
\* loop or has returned.
BetweenSteps == pc \in {"parse", "search", "done"}

\* Before the first step of the search loop.
BeforeSearch == pc = "parse" \/ (pc = "search" /\ branch = "")

(***************************************************************************)
(* C1: when search returns 10 every variable 1..max_var has a nonzero      *)
(* value and every clause line of the input has a literal of value +1.     *)
(***************************************************************************)
SatAssignmentSatisfiesInput ==
  res = 10 =>
    /\ \A v \in 1..max_var : vals[v] # 0
    /\ \A i \in 1..Len(dimacs_file.clauses) :
         \E j \in 1..Len(dimacs_file.clauses[i]) : val(M, dimacs_file.clauses[i][j]) = 1

\* SAT is returned for three or more clauses after a conflict was analyzed.
SatAfterConflict ==
  res = 10 /\ stats.conflicts >= 1 /\ Len(dimacs_file.clauses) >= 3

(***************************************************************************)
(* C2: the result of search is 10 or 20, and it is 10 exactly if a brute   *)
(* force check finds the clause lines of the input satisfiable (so 20 is   *)
(* returned only for inputs without satisfying assignment).                *)
(***************************************************************************)
ResultEqualsBruteForce ==
  pc = "done" => /\ res \in {10, 20}
                 /\ res = 10 <=> Satisfiable(dimacs_file)

\* UNSAT is returned after decisions were made and conflicts analyzed.
UnsatAfterDecisions ==
  pc = "done" /\ res = 20 /\ stats.decisions >= 1 /\ stats.conflicts >= 2

(***************************************************************************)
(* C3: for every input and every option setting the search loop            *)
(* eventually returns 10 or 20.                                            *)
(***************************************************************************)
SearchTerminates == <>(pc = "done" /\ res \in {10, 20})

\* search has returned after it restarted and reduced.
DoneAfterRestartAndReduce ==
  pc = "done" /\ stats.restarts >= 1 /\ stats.reduce.count >= 1

(***************************************************************************)
(* C4: reading a clause line that holds a literal and its complement       *)
(* changes neither the clause store nor the trail nor unsat; reading any   *)
(* other line adds its literals once each: a clause of as many literals as *)
(* the line has different ones, or nothing to the store if it has one.     *)
(***************************************************************************)
InputClauseCleaned ==
  [][(pc = "parse" /\ parsed_clauses' = parsed_clauses + 1) =>
       LET line == dimacs_file.clauses[parsed_clauses + 1]
       IN  IF Tautology(line)
           THEN memory' = memory /\ trail' = trail /\ unsat' = unsat
           ELSE /\ Cardinality(Range(line)) <= 1 => memory' = memory
                /\ \A c \in (Len(memory) + 1)..Len(memory') :
                     /\ Range(memory'[c].literals) = Range(line)
                     /\ memory'[c].size = Cardinality(Range(line))]_vars_all

(***************************************************************************)
(* C5: if the result is UNSAT and a proof trace is written, the last line  *)
(* of the trace is the empty clause, however UNSAT was reached.            *)
(***************************************************************************)
UnsatProofEndsWithEmptyClause ==
  (pc = "done" /\ res = 20 /\ proof_file) => (proof # << >> /\ Last(proof) = << 0 >>)

(***************************************************************************)
(* C6: if the input has an empty clause line, search returns 20 in the     *)
(* first iteration of its loop: propagate is never called and nothing is   *)
(* propagated, decided, analyzed, restarted or reduced.                    *)
(***************************************************************************)
EmptyInputClauseReturnsAtOnce ==
  (HasEmptyClause /\ pc \in {"search", "propagated", "done"}) =>
    /\ unsat
    /\ pc # "propagated"
    /\ branch = (IF pc = "done" THEN "unsat" ELSE "")
    /\ stats.propagations = 0 /\ stats.decisions = 0 /\ stats.conflicts = 0
    /\ stats.restarts = 0 /\ stats.reduce.count = 0
    /\ pc = "done" => res = 20

\* search has returned for an input with an empty clause line and a unit.
EmptyClauseBesideUnit ==
  pc = "done" /\ HasEmptyClause /\ Len(trail) >= 1

(***************************************************************************)
(* C7: propagate_next never exceeds the length of the trail; and when      *)
(* propagate has returned without conflict, propagate_next is the length   *)
(* of the trail and every live clause has a true literal or at least two   *)
(* unassigned literals.                                                    *)
(***************************************************************************)
NoUnitAfterPropagate ==
  /\ propagate_next <= Len(trail)
  /\ (pc = "propagated" /\ conflict = 0) =>
       /\ propagate_next = Len(trail)
       /\ \A c \in 1..Len(memory) :
            Live(c) => HasTrueLiteral(c) \/ Cardinality(UnassignedLiterals(c)) >= 2

(***************************************************************************)
(* C8: after parsing and after every step of the search loop, every live   *)
(* clause of more than two literals has exactly two watches, one in the    *)
(* watch list of its literal at position 0, one in that of its literal at  *)
(* position 1, and none in the list of another literal.                    *)
(***************************************************************************)
TwoWatchesOnFirstTwoLiterals ==
  BetweenSteps =>
    \A c \in LongLive :
      LET l0 == memory[c].literals[1]
          l1 == memory[c].literals[2]
      IN  /\ Cardinality(WatchesOf(c)) = 2
          /\ \E w \in WatchesOf(c) : w[1] = l0
          /\ \E w \in WatchesOf(c) : w[1] = l1
          /\ \A w \in WatchesOf(c) : w[1] \in {l0, l1}

\* A clause of more than two literals has survived a reduce, and propagate
\* has moved one of its watches.
WatchedAfterReduce ==
  /\ pc = "search" /\ branch = "reduce"
  /\ \E c \in LongLive : \E w \in WatchesOf(c) : BlitOf(w) \notin {memory[c].literals[1], memory[c].literals[2]}

(***************************************************************************)
(* C9 as stated: after every step of the search loop, the blocking literal *)
(* of each watch of a live clause of more than two literals is the other   *)
(* watched literal of the clause.                                          *)
(***************************************************************************)
BlitIsOtherWatchedLiteral ==
  BetweenSteps =>
    \A c \in LongLive : \A w \in WatchesOf(c) :
      /\ w[1] = memory[c].literals[1] => BlitOf(w) = memory[c].literals[2]
      /\ w[1] = memory[c].literals[2] => BlitOf(w) = memory[c].literals[1]

(***************************************************************************)
(* C9 amended: after parsing and after every step of the search loop, the  *)
(* blocking literal of each watch of a live clause of more than two        *)
(* literals is a literal of that clause; before the first step of the      *)
(* search loop it is the other watched literal.                            *)
(***************************************************************************)
BlitIsLiteralOfClause ==
  BetweenSteps =>
    \A c \in LongLive : \A w \in WatchesOf(c) :
      /\ BlitOf(w) \in Range(memory[c].literals)
      /\ BeforeSearch =>
           /\ w[1] = memory[c].literals[1] => BlitOf(w) = memory[c].literals[2]
           /\ w[1] = memory[c].literals[2] => BlitOf(w) = memory[c].literals[1]

\* propagate has left a watch whose blocking literal is not a watched literal.
BlitRefreshed ==
  /\ pc = "search" /\ stats.propagations >= 1
  /\ \E c \in LongLive : \E w \in WatchesOf(c) :
       /\ BlitOf(w) \notin {memory[c].literals[1], memory[c].literals[2]}
       /\ BlitOf(w) \in Range(memory[c].literals)

(***************************************************************************)
(* C10: between the steps of the search loop every literal on the trail    *)
(* has value +1, its complement value -1, and the level of its variable is *)
(* at most the current decision level.                                     *)
(***************************************************************************)
TrailLiteralsTrue ==
  pc \in {"search", "propagated", "done"} =>
    \A i \in 1..Len(trail) :
      /\ val(M, trail[i]) = 1
      /\ val(M, neg(trail[i])) = -1
      /\ var(M, trail[i]).level <= level

\* analyze has jumped back to a level above the root and assigned there.
TrailAfterBackjump ==
  pc = "search" /\ branch = "analyze" /\ level >= 1 /\ Len(trail) >= 2

\* search is at the top of its loop, has called propagate, or has returned.
InSearch == pc \in {"search", "propagated", "done"}

(***************************************************************************)
(* C11: between the steps of the search loop the levels of the trail       *)
(* literals do not decrease from the bottom to the top of the trail, and   *)
(* for each level k in 1..level the decision stored in levels[k] is the    *)
(* first trail literal whose level is k.                                   *)
(***************************************************************************)
TrailLevelsOrdered ==
  InSearch =>
    /\ \A i \in 1..(Len(trail) - 1) : var(M, trail[i]).level <= var(M, trail[i + 1]).level
    /\ Len(levels) = level + 1
    /\ \A k \in 1..level :
         \E i \in 1..Len(trail) :
           /\ trail[i] = levels[k + 1].decision
           /\ var(M, trail[i]).level = k
           /\ \A j \in 1..(i - 1) : var(M, trail[j]).level < k

\* Two decisions are on the trail, each followed by a propagated literal.
TwoLevelsWithPropagations ==
  /\ InSearch /\ level >= 2
  /\ \A k \in 1..2 : \E i \in 1..Len(trail) :
       var(M, trail[i]).level = k /\ var(M, trail[i]).reason # 0

(***************************************************************************)
(* The VMTF queue read as a list: the variables met walking from 'start'   *)
(* along the links 'link', at most n of them.                              *)
(***************************************************************************)
RECURSIVE QueueWalk(_, _, _)
QueueWalk(start, link, n) ==
  IF start = 0 \/ n = 0 THEN << >>
  ELSE << start >> \o QueueWalk(link[start], link, n - 1)

QueueForward == QueueWalk(queue.first, [i \in 1..max_var |-> vars[i].next], max_var + 1)

QueueBackward == QueueWalk(queue.last, [i \in 1..max_var |-> vars[i].prev], max_var + 1)

Reverse(q) == [i \in 1..Len(q) |-> q[Len(q) + 1 - i]]

(***************************************************************************)
(* C12: once the queue is initialised, the walk from queue.first along     *)
(* next and the walk from queue.last along prev both visit every variable  *)
(* 1..max_var exactly once, in opposite orders, and the bumped timestamps  *)
(* strictly increase from first to last.                                   *)
(***************************************************************************)
VmtfQueueIsList ==
  pc # "header" =>
    /\ Len(QueueForward) = max_var
    /\ Range(QueueForward) = 1..max_var
    /\ QueueBackward = Reverse(QueueForward)
    /\ \A i \in 1..(max_var - 1) :
         vars[QueueForward[i]].bumped < vars[QueueForward[i + 1]].bumped

\* analyze has bumped variables: the queue is no longer in the initial order
\* 1, 2, ..., max_var.
QueueReordered ==
  /\ pc = "search" /\ branch = "analyze" /\ max_var >= 3
  /\ \E i \in 1..max_var : QueueForward[i] # i

\* The place of the cursor queue.next in the queue, 0 if it is no variable.
CursorPosition ==
  IF \E i \in 1..Len(QueueForward) : QueueForward[i] = queue.next
  THEN CHOOSE i \in 1..Len(QueueForward) : QueueForward[i] = queue.next
  ELSE 0

(***************************************************************************)
(* C13: after parsing and after every step of the search loop every        *)
(* variable that comes after the cursor queue.next in the queue is         *)
(* assigned, and next_decision_variable never walks off the queue.         *)
(***************************************************************************)
AssignedAfterCursor ==
  pc \in {"parse", "search", "propagated", "done"} =>
    /\ \A i \in 1..Len(QueueForward) : i > CursorPosition => vals[QueueForward[i]] # 0
    /\ "next_decision_variable reads vals[0]" \notin hazard

\* After a backjump the cursor is on an unassigned variable that is not the
\* last of the queue.
CursorInsideQueue ==
  /\ pc = "search" /\ branch = "analyze"
  /\ CursorPosition >= 1 /\ CursorPosition < max_var
  /\ vals[queue.next] = 0

\* The step is a call of analyze for a conflict above the root level.
AnalyzeStep == pc = "propagated" /\ conflict # 0 /\ level > 0 /\ pc' = "search"

\* The value and the level of a literal before the step and after it.
LevelOf(lit) == vars[vidx(lit)].level

ValueAfter(lit) == IF lit < 0 THEN 0 - vals'[vidx(lit)] ELSE vals'[vidx(lit)]

\* The literals analyze has learned in the step: those of the clause it
\* added, or the unit it assigned.
LearnedLiterals ==
  IF Len(memory') > Len(memory) THEN memory'[Len(memory')].literals
  ELSE << Last(trail') >>

(***************************************************************************)
(* C14: when analyze has learned a clause of two or more literals from a   *)
(* conflict above the root level, its literal at position 0 is the only    *)
(* one from the conflict level and was false there (the complement of the  *)
(* first UIP), its literal at position 1 has the greatest level of the     *)
(* others, the solver is at exactly that level, the literal at position 0  *)
(* is the last of the trail, true at that level with the learned clause as *)
(* reason, and the other literals are false.  When it has learned a unit,  *)
(* the solver is at level 0 and the unit is the last of the trail, true at *)
(* level 0 without reason.                                                 *)
(***************************************************************************)
LearnedClauseDrives ==
  [][AnalyzeStep =>
       LET lits == LearnedLiterals
           c == Len(memory')
           first == vars'[vidx(lits[1])]
       IN  /\ val(M, lits[1]) = -1 /\ LevelOf(lits[1]) = level
           /\ Last(trail') = lits[1] /\ ValueAfter(lits[1]) = 1
           /\ first.level = level'
           /\ IF Len(memory') > Len(memory)
              THEN /\ Len(memory') = Len(memory) + 1
                   /\ memory'[c].redundant /\ ~memory'[c].freed
                   /\ memory'[c].size = Len(lits) /\ Len(lits) >= 2
                   /\ c \in Range(redundant')
                   /\ \A k \in 2..Len(lits) :
                        /\ LevelOf(lits[k]) < level
                        /\ LevelOf(lits[k]) <= LevelOf(lits[2])
                        /\ ValueAfter(lits[k]) = -1
                   /\ level' = LevelOf(lits[2])
                   /\ first.reason = c
              ELSE /\ level' = 0
                   /\ first.reason = 0]_vars_all

\* analyze has learned a clause of three or more literals and jumped over a
\* level.
LearnedLongClause ==
  /\ pc = "search" /\ branch = "analyze" /\ memory # << >>
  /\ Last(memory).redundant /\ Last(memory).size >= 3
  /\ var(M, Last(trail)).reason = Len(memory)
  /\ Last(memory).resolved = stats.conflicts

(***************************************************************************)
(* C15: the glue stored in a learned clause, and fed to the fast and the   *)
(* slow EMA of the learned glue, is the number of different levels, at the *)
(* moment of the conflict, of the literals learned (the complement of the  *)
(* first UIP among them).                                                  *)
(***************************************************************************)
GlueCountsLevels ==
  [][AnalyzeStep =>
       LET g == Cardinality({ LevelOf(LearnedLiterals[k]) : k \in 1..Len(LearnedLiterals) })
       IN  /\ Len(memory') > Len(memory) => memory'[Len(memory')].glue = g
           /\ ema'.learned.glue.fast = EMA_update(ema.learned.glue.fast, g)
           /\ ema'.learned.glue.slow = EMA_update(ema.learned.glue.slow, g)]_vars_all

\* A learned clause has fewer levels than literals.
GlueBelowSize ==
  \E c \in 1..Len(memory) :
    memory[c].redundant /\ memory[c].glue >= 2 /\ memory[c].glue < memory[c].size

\* The step is a call of reduce.
ReduceStep == pc = "propagated" /\ pc' = "search" /\ branch' = "reduce"

\* The state is the one reduce has returned in.
PostReduce == pc = "search" /\ branch = "reduce"

\* Clause c has a literal that is true at level 0.
RootSatisfied(c) ==
  \E k \in 1..memory[c].size :
    val(M, memory[c].literals[k]) > 0 /\ LevelOf(memory[c].literals[k]) = 0

\* The trail literals (after the step) whose reason is a clause.
ImpliedAfter == { i \in 1..Len(trail') : vars'[vidx(trail'[i])].reason # 0 }

ReasonKept(i) ==
  LET c == vars'[vidx(trail'[i])].reason
  IN  ~memory'[c].freed /\ ~memory'[c].garbage

OriginalClausesKept ==
  \A c \in 1..Len(memory) :
    ~memory[c].redundant => ~memory[c].freed /\ c \in Range(irredundant)

(***************************************************************************)
(* C17, amended: an original clause leaves the irredundant set, and is     *)
(* freed, only in a reduce that finds the number of fixed variables grown  *)
(* since the last reduce, and only when one of its literals is true at     *)
(* level 0; every other original clause stays allocated and in the set.    *)
(***************************************************************************)
OriginalClausesLeaveOnlySatisfied ==
  [][\A c \in 1..Len(memory) :
       (~memory[c].redundant /\ ~memory[c].freed) =>
         /\ c \in Range(irredundant)
         /\ ~memory'[c].redundant
         /\ (memory'[c].freed \/ c \notin Range(irredundant')) =>
              /\ ReduceStep
              /\ limits.reduce.fixed < stats.fixed
              /\ RootSatisfied(c)]_vars_all

\* Above level 0 a reduce deleted an original clause and kept another one,
\* which the decisions satisfy.
OriginalDeletedAndKept ==
  /\ pc = "search" /\ branch = "reduce" /\ level > 0
  /\ \E c \in 1..Len(memory) : ~memory[c].redundant /\ memory[c].freed
  /\ \E c \in Range(irredundant) :
       /\ ~RootSatisfied(c)
       /\ \E k \in 1..memory[c].size : val(M, memory[c].literals[k]) > 0

\* The learned clauses a reduce may choose from when no limit holds it back:
\* more than three literals, glue above two, not the reason of a trail
\* literal above level 0.
Eligible ==
  { c \in Range(redundant) :
      /\ memory[c].glue > 2 /\ memory[c].size > 3
      /\ ~\E i \in 1..Len(trail) : HasReason(M, trail[i]) /\ var(M, trail[i]).reason = c }

\* The clauses freed on the way from this state to m.
Deleted(m) == { c \in 1..Len(memory) : m.memory[c].freed /\ ~memory[c].freed }

(***************************************************************************)
(* C18, as stated: reduce run again in the state a reduce has returned in  *)
(* leaves the redundant clauses as they are.                               *)
(***************************************************************************)
SecondReduceIdle ==
  PostReduce => \A m \in reduce(M) : m.redundant = redundant /\ Deleted(m) = {}

(***************************************************************************)
(* C18, amended: reduce run again in the state a reduce has returned in    *)
(* deletes nothing but learned clauses of more than three literals and     *)
(* glue above two that are not reasons, at most half of them, so none when *)
(* fewer than two are left; it keeps every other clause and every original *)
(* clause.  The search never runs it so: after a reduce the limit for the  *)
(* next one lies above the number of conflicts.                            *)
(***************************************************************************)
SecondReduceHalves ==
  /\ [](PostReduce =>
          \A m \in reduce(M) :
            /\ Deleted(m) \subseteq Eligible
            /\ 2 * Cardinality(Deleted(m)) <= Cardinality(Eligible)
            /\ m.redundant = SelectSeq(redundant, LAMBDA c : c \notin Deleted(m))
            /\ m.irredundant = irredundant
            /\ \A c \in 1..Len(memory) : m.memory[c].garbage = m.memory[c].freed)
  /\ [][ReduceStep => limits'.reduce.conflicts > stats'.conflicts]_vars_all

\* A reduce has returned with two eligible clauses left, and run again it
\* would delete one.
SecondReduceDeletes ==
  PostReduce /\ Cardinality(Eligible) >= 2 /\ \E m \in reduce(M) : Deleted(m) # {}

(***************************************************************************)
(* C19: a reduce that finds the number of fixed variables grown deletes    *)
(* every clause, original or learned, that has a literal true at level 0:  *)
(* the clause is freed and in neither clause set afterwards, unless it is  *)
(* the reason of a trail literal above level 0 (flagged during reduce).    *)
(***************************************************************************)
SatisfiedClausesCollected ==
  [][(ReduceStep /\ limits.reduce.fixed < stats.fixed) =>
       \A c \in 1..Len(memory) :
         (~memory[c].freed /\ RootSatisfied(c)) =>
           \/ /\ memory'[c].freed
              /\ c \notin Range(irredundant') \cup Range(redundant')
           \/ \E i \in 1..Len(trail) :
                HasReason(M, trail[i]) /\ var(M, trail[i]).reason = c]_vars_all

\* A learned clause satisfied at level 0 was deleted.
LearnedSatisfiedDeleted ==
  /\ pc = "search" /\ branch = "reduce"
  /\ \E c \in 1..Len(memory) :
       /\ memory[c].redundant /\ memory[c].freed
       /\ RootSatisfied(c)

(***************************************************************************)
(* C20: in every state, so after each reduce and until the next, no watch  *)
(* refers to a clause that is flagged garbage or was freed, and            *)
(* flush_watches never reads a freed clause.                               *)
(***************************************************************************)
WatchesReferToLiveClauses ==
  /\ \A l \in DOMAIN all_literal_watches :
       \A i \in 1..Len(all_literal_watches[l]) :
         LET c == all_literal_watches[l][i].clause
         IN  c \in 1..Len(memory) /\ ~memory[c].freed /\ ~memory[c].garbage
  /\ "flush_watches reads a deleted clause" \notin hazard

\* A clause was deleted that a variable not fixed was watching, and the
\* search went on after the reduce.
WatchedClauseDeleted ==
  /\ pc \in {"search", "propagated"} /\ stats.reduce.count > 0 /\ branch # "reduce"
  /\ \E c \in 1..Len(memory) :
       /\ memory[c].freed
       /\ \E k \in 1..2 : k <= memory[c].size /\ vals[vidx(memory[c].literals[k])] = 0

\* The least and the greatest observation given to 'average'.
MinOfFed == CHOOSE y \in Range(fed) : \A z \in Range(fed) : y <= z

MaxOfFed == CHOOSE y \in Range(fed) : \A z \in Range(fed) : z <= y

(***************************************************************************)
(* C21: after one update or more the value of an EMA is no less than the   *)
(* least and no greater than the greatest observation it was updated with, *)
(* and it equals y after every update of a sequence y, y, y, ...           *)
(***************************************************************************)
EmaWithinObservations ==
  fed # << >> =>
    /\ DyLeq(DyInt(MinOfFed), average.value)
    /\ DyLeq(average.value, DyInt(MaxOfFed))
    /\ (\A i \in 1..Len(fed) : fed[i] = fed[1]) => average.value = DyInt(fed[1])

\* The value lies strictly between the observations, after beta has come
\* down to an alpha below one.
EmaStrictlyInside ==
  /\ Len(fed) >= 4
  /\ DyLess(DyInt(MinOfFed), average.value) /\ DyLess(average.value, DyInt(MaxOfFed))
  /\ average.beta = average.alpha /\ DyLess(average.alpha, DyInt(1))

\* floor(log2(n)) for n >= 1
RECURSIVE Log2(_)
Log2(n) == IF n < 2 THEN 0 ELSE 1 + Log2(n \div 2)

\* The weight of update number n by the schedule 1, 1/2, 1/2, 1/4 (four times),
\* 1/8 (eight times), ... cut off at alpha.
ScheduledBeta(alpha, n) ==
  IF DyLess(alpha, Dy(1, Log2(n))) THEN Dy(1, Log2(n)) ELSE alpha

(***************************************************************************)
(* C22: the weight beta of update number n is 2^-k for the k with          *)
(* 2^k <= n < 2^(k+1), so 2^-k serves exactly 2^k updates, as long as that *)
(* is above alpha, and alpha from then on; beta never grows and never      *)
(* is below alpha.                                                         *)
(***************************************************************************)
BetaFollowsSchedule ==
  /\ [](average.beta = ScheduledBeta(average.alpha, Len(fed) + 1))
  /\ [][/\ DyLeq(average'.beta, average.beta)
        /\ DyLeq(average'.alpha, average'.beta)
        /\ average'.alpha = average.alpha]_vars_all

\* With alpha 0 the weight 1/8 has served its eight updates: number sixteen
\* is about to use 1/16.
BetaSixteenth ==
  Len(fed) = 15 /\ average.alpha = DyInt(0) /\ average.beta = Dy(1, 4)

\* The step is a call of decide.
DecideStep == pc = "propagated" /\ branch' = "decide" /\ stats'.decisions = stats.decisions + 1

\* Propagation has returned without conflict and has gone through the trail.
AtFixpoint == conflict = 0 /\ propagate_next = Len(trail)

(***************************************************************************)
(* C23: decide is called only where propagation has gone through the whole *)
(* trail without conflict, no iterate report is pending, a variable is     *)
(* unassigned, restarting () is false and reducing () is false; reduce is  *)
(* called only where restarting () is false; search returns 10 only where  *)
(* propagation has gone through the whole trail without conflict.          *)
(***************************************************************************)
SearchLoopPriority ==
  [][/\ DecideStep =>
          /\ AtFixpoint /\ ~iterating
          /\ \E idx \in 1..max_var : vals[idx] = 0
          /\ ~restarting(M).r
          /\ ~reducing(restarting(M).m)
     /\ ReduceStep => AtFixpoint /\ ~restarting(M).r
     /\ (res = 0 /\ res' = 10) =>
          /\ AtFixpoint /\ pc = "propagated"
          /\ \A idx \in 1..max_var : vals[idx] # 0]_vars_all

\* A decision taken in a run that has restarted and reduced before, with
\* both enabled.
DecidedAfterRestartAndReduce ==
  /\ branch = "decide" /\ opts.restart /\ opts.reduce
  /\ stats.restarts > 0 /\ stats.reduce.count > 1 /\ level >= 2

\* The step is a call of restart.
RestartStep == pc = "propagated" /\ branch' = "restart" /\ stats'.restarts = stats.restarts + 1

\* The search loop is at its call of restarting (): propagation has returned
\* without conflict, no report is pending and a variable is unassigned.
AtRestartTest ==
  /\ pc = "propagated" /\ conflict = 0 /\ ~iterating
  /\ \E idx \in 1..max_var : vals[idx] = 0

\* restarting () gets past its test of the interval.
PastInterval == opts.restart /\ stats.conflicts > limits.restart.conflicts

\* (1 + restartmargin) * slow, and fast
GlueLimit == DyMul(DyAdd(DyInt(1), opts.restartmargin), ema.learned.glue.slow.value)

GlueFast == ema.learned.glue.fast.value

\* 'level < opts.restartdelaylim * ema.jump' with delays enabled
Delaying ==
  opts.restartdelay /\ DyLess(DyInt(level), DyMul(opts.restartdelaylim, ema.jump.value))

(***************************************************************************)
(* C24, as stated: a restart happens only where the fast glue average is   *)
(* strictly above (1 + restartmargin) times the slow one.                  *)
(***************************************************************************)
RestartOnlyAboveLimit ==
  [][RestartStep => DyLess(GlueLimit, GlueFast)]_vars_all

(***************************************************************************)
(* C24, amended: with restarts enabled and the interval exceeded, a        *)
(* restart is forced exactly when the fast glue average is equal to or     *)
(* above (1 + restartmargin) times the slow one: a restart happens only    *)
(* there, and happens there unless it is delayed; strictly below the       *)
(* limit no restart happens.                                               *)
(***************************************************************************)
RestartAtOrAboveLimit ==
  [][/\ RestartStep => AtRestartTest /\ PastInterval /\ DyLeq(GlueLimit, GlueFast)
     /\ (AtRestartTest /\ PastInterval /\ DyLeq(GlueLimit, GlueFast) /\ ~Delaying)
          => RestartStep]_vars_all

\* The second restart of a run, with the fast average strictly above the
\* limit; the first restart of every run is at the limit exactly, the two
\* averages being equal during the first three conflicts.
RestartAboveLimit ==
  branch = "restart" /\ stats.restarts >= 2 /\ DyLess(GlueLimit, GlueFast)

(***************************************************************************)
(* C25: whenever the search loop calls restarting () and the interval      *)
(* test is passed, the restart limit is the number of conflicts plus       *)
(* restartint afterwards, be the restart left out, delayed or executed; a  *)
(* restart needs more conflicts than the limit, and the limit never goes   *)
(* down, so more than restartint conflicts lie between two restarts and    *)
(* the conflicts number at least (restartint + 1) times the restarts.      *)
(***************************************************************************)
RestartsSpaced ==
  /\ [][/\ (AtRestartTest /\ PastInterval) =>
             limits'.restart.conflicts = stats.conflicts + opts.restartint
        /\ RestartStep => stats.conflicts > limits.restart.conflicts
        /\ limits'.restart.conflicts >= limits.restart.conflicts]_vars_all
  /\ [](stats.conflicts >= stats.restarts * (opts.restartint + 1))

\* The second restart of a run.
SecondRestart ==
  /\ branch = "restart" /\ stats.restarts = 2
  /\ limits.restart.conflicts = stats.conflicts + opts.restartint

\* The variable next_decision_variable () returns: the first unassigned one
\* from queue.next towards the front of the queue (0: none).
RECURSIVE Candidate(_)
Candidate(idx) ==
  IF idx = 0 THEN 0 ELSE IF vals[idx] # 0 THEN Candidate(vars[idx].prev) ELSE idx

NextCandidate == Candidate(queue.next)

\* The levels r such that the decisions of levels 1..r all have a timestamp
\* above that of the next decision candidate.
ReusePrefix ==
  { r \in 0..level :
      \A i \in 1..r :
        vars[vidx(levels[i + 1].decision)].bumped > vars[NextCandidate].bumped }

ReuseLevel ==
  IF opts.reusetrail THEN CHOOSE r \in ReusePrefix : \A q \in ReusePrefix : q <= r ELSE 0

(***************************************************************************)
(* C26: a restart backtracks to the largest level r, at most the current   *)
(* one, such that every decision of the levels 1..r has a timestamp        *)
(* strictly above that of the next decision candidate, and to level 0 with *)
(* trail reuse disabled: the assignments of the levels up to r stay, those *)
(* above are undone; the root-level assignments and the clauses are as     *)
(* before.                                                                 *)
(***************************************************************************)
RestartReusesTrail ==
  [][RestartStep =>
       /\ NextCandidate # 0
       /\ level' = ReuseLevel
       /\ \A idx \in 1..max_var :
            vals'[idx] = IF vals[idx] # 0 /\ vars[idx].level <= ReuseLevel
                         THEN vals[idx] ELSE 0
       /\ \A idx \in 1..max_var :
            (vals[idx] # 0 /\ vars[idx].level = 0) =>
               (vals'[idx] = vals[idx] /\ vars'[idx].level = 0)
       /\ irredundant' = irredundant /\ redundant' = redundant
       /\ memory' = memory]_vars_all

\* A restart has kept a part of the trail: it ended above level 0, and a
\* variable assigned above that level is unassigned.
TrailPartlyReused ==
  /\ branch = "restart" /\ level > 0 /\ opts.reusetrail
  /\ \E idx \in 1..max_var : vals[idx] = 0 /\ vars[idx].level > level

\* Clause c is the reason of a trail literal above level 0: protect_reasons
\* flags it for the time of the reduce.
Protected(c) ==
  \E i \in 1..Len(trail) :
    vars[vidx(trail[i])].level # 0 /\ vars[vidx(trail[i])].reason = c

\* Clause c is garbage when the candidates are collected: flagged before, or
\* by this reduce as satisfied at level 0.
AlreadyGarbage(c) ==
  \/ memory[c].garbage
  \/ limits.reduce.fixed < stats.fixed /\ ~Protected(c) /\ RootSatisfied(c)

\* Glue and size of c are both below the averages over the resolved clauses.
BelowAverages(c) ==
  /\ DyLess(DyInt(memory[c].glue), ema.resolved.glue.value)
  /\ DyLess(DyInt(memory[c].size), ema.resolved.size.value)

\* The part of the candidate test that does not depend on reducedynamic.
StaticCandidate(c) ==
  /\ ~Protected(c) /\ ~AlreadyGarbage(c)
  /\ memory[c].glue > 2 /\ memory[c].size > 3
  /\ memory[c].resolved <= limits.reduce.resolved

\* The candidates as stated: with reducedynamic, those below both averages.
StatedCandidates ==
  { c \in Range(redundant) :
      StaticCandidate(c) /\ (opts.reducedynamic => BelowAverages(c)) }

\* The candidates: with reducedynamic, those not below both averages.
Candidates ==
  { c \in Range(redundant) :
      StaticCandidate(c) /\ (opts.reducedynamic => ~BelowAverages(c)) }

\* The clauses this step frees without their being satisfied at level 0.
Chosen ==
  { c \in 1..Len(memory) :
      memory'[c].freed /\ ~memory[c].freed /\ ~AlreadyGarbage(c) }

(***************************************************************************)
(* C27, as stated: the candidates of a reduce are the learned clauses that *)
(* are no protected reason, not garbage, of glue above 2, of size above 3, *)
(* not resolved since the previous reduce and, with reducedynamic, below   *)
(* both averages; the clauses deleted as useless are half of them.         *)
(***************************************************************************)
ReduceChoosesBelowAverages ==
  [][ReduceStep => /\ Range(work') = StatedCandidates
                   /\ Chosen \subseteq StatedCandidates
                   /\ Cardinality(Chosen) = Cardinality(StatedCandidates) \div 2]_vars_all

(***************************************************************************)
(* C27, amended: a learned clause is a candidate for deletion exactly when *)
(* it is no protected reason, not garbage, has glue above 2, size above 3, *)
(* was not resolved after the conflict count recorded at the previous      *)
(* reduce (0 before the first) and, with reducedynamic, is not below both  *)
(* averages: a reduce deletes half of these, rounded down, and no other    *)
(* clause that is not satisfied at level 0.                                *)
(***************************************************************************)
ReduceChoosesCandidates ==
  /\ [][ReduceStep => /\ Range(work') = Candidates
                      /\ Chosen \subseteq Candidates
                      /\ Cardinality(Chosen) = Cardinality(Candidates) \div 2
                      /\ limits'.reduce.resolved = stats.conflicts]_vars_all
  /\ [](stats.reduce.count = 0 => limits.reduce.resolved = 0)

\* A reduce with reducedynamic has deleted a learned clause that was not
\* satisfied at level 0.
DynamicReduceDeleted ==
  /\ PostReduce /\ opts.reducedynamic
  /\ \E c \in 1..Len(memory) :
       /\ memory[c].redundant /\ memory[c].freed /\ ~RootSatisfied(c)
       /\ memory[c].glue > 2 /\ memory[c].size > 3 /\ ~BelowAverages(c)

\* Candidate c comes strictly before candidate d in the order of reduce:
\* resolved ascending, then glue descending, then size descending.
Precedes(c, d) ==
  \/ memory[c].resolved < memory[d].resolved
  \/ /\ memory[c].resolved = memory[d].resolved
     /\ \/ memory[c].glue > memory[d].glue
        \/ memory[c].glue = memory[d].glue /\ memory[c].size > memory[d].size

\* The candidates the step has marked garbage.
Marked == { c \in Range(work') : memory'[c].garbage }

(***************************************************************************)
(* C28: of the n candidates of a reduce exactly n div 2 are marked         *)
(* garbage, and no candidate left unmarked comes strictly before a marked  *)
(* one in the order resolved ascending, glue descending, size descending.  *)
(***************************************************************************)
ReduceMarksFirstHalf ==
  [][ReduceStep =>
       /\ Cardinality(Range(work')) = Len(work')
       /\ Cardinality(Marked) = Len(work') \div 2
       /\ \A c \in Marked : \A d \in Range(work') \ Marked : ~Precedes(d, c)]_vars_all

\* A reduce had three candidates or more, marked one that comes strictly
\* before one it left.
ReduceMarkedEarlier ==
  /\ PostReduce /\ Len(work) >= 3
  /\ \E c, d \in Range(work) :
       memory[c].garbage /\ ~memory[d].garbage /\ Precedes(c, d)

\* The conflicts between the k-th call of reduce and the next one.
ReduceGap(k) == reduced_at[k + 1] - reduced_at[k]

\* What every call of reduce does to the limits: it is called with the
\* limit reached, the limit is reduceinit before the first call, and the
\* k-th call sets the limit to the number of conflicts plus
\* reduceinit + k * reduceinc and the resolved cutoff to the number of
\* conflicts.
ReduceLimits ==
  /\ [][ReduceStep =>
          /\ stats.conflicts >= limits.reduce.conflicts
          /\ stats'.reduce.count = stats.reduce.count + 1
          /\ limits'.reduce.conflicts =
               stats.conflicts + opts.reduceinit + stats'.reduce.count * opts.reduceinc
          /\ limits'.reduce.resolved = stats.conflicts]_vars_all
  /\ []((pc \in {"search", "propagated"} /\ stats.reduce.count = 0) =>
          limits.reduce.conflicts = opts.reduceinit)
  /\ [](Len(reduced_at) = stats.reduce.count)

(***************************************************************************)
(* C29, as stated: reduce is called only with the limit reached, the first *)
(* limit is reduceinit, the k-th call sets the limit to the number of      *)
(* conflicts plus reduceinit + k * reduceinc and the cutoff to the number  *)
(* of conflicts, and the number of conflicts between two calls is at least *)
(* reduceinc above the number between the two calls before.                *)
(***************************************************************************)
ReduceGapsGrow ==
  /\ ReduceLimits
  /\ [](\A k \in 1..(Len(reduced_at) - 2) :
          ReduceGap(k + 1) >= ReduceGap(k) + opts.reduceinc)

(***************************************************************************)
(* C29, amended: as stated for the limits; the number of conflicts between *)
(* the k-th call and the next is at least reduceinit + k * reduceinc, a    *)
(* bound that grows by reduceinc with each call.                           *)
(***************************************************************************)
ReduceIntervalsGrow ==
  /\ ReduceLimits
  /\ [](\A k \in 1..(Len(reduced_at) - 1) :
          ReduceGap(k) >= opts.reduceinit + k * opts.reduceinc)

\* A reduce came later than its limit asked for, after consecutive
\* conflicts, and the next one came less than reduceinc conflicts later than
\* that.
ReduceAfterLateReduce ==
  /\ PostReduce /\ Len(reduced_at) >= 3
  /\ \E k \in 1..(Len(reduced_at) - 2) :
       /\ ReduceGap(k) > opts.reduceinit + k * opts.reduceinc
       /\ ReduceGap(k + 1) < ReduceGap(k) + opts.reduceinc

\* The variables the analysis of the step has marked seen.
SeenVars == { vidx(analyzed'[i]) : i \in 1..Len(analyzed') }

\* The queue after the step, from queue.first along next.
RECURSIVE QueueFrom(_, _)
QueueFrom(idx, n) ==
  IF idx = 0 \/ n = 0 THEN << >> ELSE << idx >> \o QueueFrom(vars'[idx].next, n - 1)

QueueAfter == QueueFrom(queue'.first, max_var)

\* The last n variables of the queue after the step.
TailRegion(n) ==
  { QueueAfter[i] : i \in (Len(QueueAfter) - n + 1)..Len(QueueAfter) }

\* The seen variables are the tail of the queue, in the order they had before.
SeenMovedToTail ==
  /\ Len(QueueAfter) = max_var
  /\ TailRegion(Cardinality(SeenVars)) = SeenVars
  /\ \A a, b \in SeenVars :
       vars[a].bumped < vars[b].bumped => vars'[a].bumped < vars'[b].bumped

\* No mark of the analysis is left.
MarksCleared ==
  /\ \A idx \in 1..max_var :
       ~vars'[idx].seen /\ ~vars'[idx].minimized /\ ~vars'[idx].poison
  /\ \A i \in 1..Len(levels') : levels'[i].seen = 0
  /\ seen'.literals = << >> /\ seen'.levels = << >>

(***************************************************************************)
(* C30: after analyze has handled a conflict above level 0, every variable *)
(* it marked seen is in the tail of the queue with a new timestamp above   *)
(* every timestamp there was before, the seen variables are in the order   *)
(* they had, and no seen, minimized or poison mark and no seen counter of  *)
(* a level is left.                                                        *)
(***************************************************************************)
SeenVariablesBumped ==
  [][AnalyzeStep =>
       /\ SeenVars # {}
       /\ \A idx \in SeenVars :
            \A other \in 1..max_var : vars'[idx].bumped > vars[other].bumped
       /\ SeenMovedToTail
       /\ MarksCleared]_vars_all

\* No clause line of the input repeats a literal.
NoRepeatedLiteral ==
  \A i \in 1..Len(dimacs_file.clauses) :
    \A j, k \in 1..Len(dimacs_file.clauses[i]) :
      j # k => dimacs_file.clauses[i][j] # dimacs_file.clauses[i][k]

\* C30 on the inputs that repeat no literal in a clause line: there the
\* conflicting clause has two variables assigned above level 0 or more, and
\* every seen variable is moved and stamped.
SeenVariablesBumpedOnSets ==
  [][(AnalyzeStep /\ NoRepeatedLiteral) =>
       /\ Cardinality(SeenVars) >= 2
       /\ \A idx \in SeenVars :
            \A other \in 1..max_var : vars'[idx].bumped > vars[other].bumped
       /\ SeenMovedToTail
       /\ MarksCleared]_vars_all

\* The queue as init_vmtf_queue leaves it: the variables 1..V linked in
\* ascending order, stamped 1..V, the cursor at the last one.
QueueAscending ==
  /\ queue.last = max_var /\ queue.next = max_var
  /\ max_var > 0 => queue.first = 1
  /\ \A i \in 1..max_var :
       /\ vars[i].prev = i - 1
       /\ vars[i].next = IF i < max_var THEN i + 1 ELSE 0
       /\ vars[i].bumped = i

\* The step is the first decision of the search.
FirstDecision == DecideStep /\ stats.decisions = 0

\* The variable the first decision has assigned.
FirstDecided == vidx(levels'[2].decision)

(***************************************************************************)
(* C31, as stated: from initialization to the first decision the queue     *)
(* links the variables 1..V in ascending order with the cursor at the      *)
(* tail, and the first decision picks variable V.                          *)
(***************************************************************************)
FirstDecisionPicksLast ==
  /\ []((pc # "header" /\ stats.decisions = 0) => QueueAscending)
  /\ [][FirstDecision => FirstDecided = max_var]_vars_all

(***************************************************************************)
(* C31, amended: from initialization to the first decision the queue links *)
(* the variables 1..V in ascending order with the cursor at the tail, and  *)
(* the first decision picks the unassigned variable of highest index:      *)
(* variable V unless V is assigned at level 0 by then.                     *)
(***************************************************************************)
FirstDecisionPicksLastUnassigned ==
  /\ []((pc # "header" /\ stats.decisions = 0) => QueueAscending)
  /\ [][FirstDecision =>
          /\ vals[FirstDecided] = 0 /\ vals'[FirstDecided] # 0
          /\ \A idx \in 1..max_var : vals[idx] = 0 => idx <= FirstDecided
          /\ vals[max_var] = 0 => FirstDecided = max_var
          /\ level' = 1 /\ Len(levels') = 2]_vars_all

\* The first decision was made with variable V fixed, on another variable.
FirstDecisionBelowLast ==
  /\ branch = "decide" /\ stats.decisions = 1 /\ level = 1
  /\ vidx(levels[2].decision) < max_var /\ vars[max_var].level = 0
  /\ vals[max_var] # 0

\* The variable of the first UIP of the analysis of the step: the learned
\* clause asserts its negation, the last literal of the trail afterwards.
UipVar == vidx(trail'[Len(trail')])

\* The trail positions of the literals the analysis has resolved upon: the
\* seen literals of the conflict level other than the first UIP.
ResolvedAt ==
  { i \in 1..Len(trail) :
      /\ vidx(trail[i]) \in SeenVars /\ vars[vidx(trail[i])].level = level
      /\ vidx(trail[i]) # UipVar }

\* The antecedents of the analysis in the order of their use: the
\* conflicting clause, then the reasons of the literals resolved upon from
\* the end of the trail backwards.
RECURSIVE ReasonsFrom(_)
ReasonsFrom(i) ==
  IF i = 0 THEN << >>
  ELSE IF i \in ResolvedAt
  THEN << vars[vidx(trail[i])].reason >> \o ReasonsFrom(i - 1)
  ELSE ReasonsFrom(i - 1)

Antecedents == << conflict >> \o ReasonsFrom(Len(trail))

\* An average after updates with the given field of the redundant clauses
\* among cs, in order.
RECURSIVE UpdatedWith(_, _, _)
UpdatedWith(E, cs, field) ==
  IF cs = << >> THEN E
  ELSE IF memory[Head(cs)].redundant
  THEN UpdatedWith(EMA_update(E, IF field = "glue" THEN memory[Head(cs)].glue
                                 ELSE memory[Head(cs)].size), Tail(cs), field)
  ELSE UpdatedWith(E, Tail(cs), field)

(***************************************************************************)
(* C32: an analysis above level 0 sets the resolved field of every learned *)
(* clause among its antecedents (the conflicting clause and the reasons of *)
(* the literals resolved upon) to the number of conflicts and updates the  *)
(* averages of resolved glue and size once with each of them; it leaves    *)
(* the original clauses as they are.                                       *)
(***************************************************************************)
AntecedentsBumped ==
  [][AnalyzeStep =>
       /\ \A k \in 1..Len(Antecedents) :
            memory[Antecedents[k]].redundant =>
              memory'[Antecedents[k]].resolved = stats.conflicts
       /\ ema'.resolved.glue = UpdatedWith(ema.resolved.glue, Antecedents, "glue")
       /\ ema'.resolved.size = UpdatedWith(ema.resolved.size, Antecedents, "size")
       /\ \A c \in 1..Len(memory) : ~memory[c].redundant => memory'[c] = memory[c]]_vars_all

\* C32 for the conflicting clause alone, the one antecedent analyze passes
\* to bump_clause.
ConflictingClauseBumped ==
  [][AnalyzeStep =>
       /\ memory[conflict].redundant =>
            memory'[conflict].resolved = stats.conflicts
       /\ ema'.resolved.glue = UpdatedWith(ema.resolved.glue, << conflict >>, "glue")
       /\ ema'.resolved.size = UpdatedWith(ema.resolved.size, << conflict >>, "size")
       /\ \A c \in 1..Len(memory) : ~memory[c].redundant => memory'[c] = memory[c]]_vars_all

\* The literal of variable idx that is true, and the position of a literal
\* on the trail (0: not there).
TrueLiteral(idx) == idx * vals[idx]

TrailPosition(lit) ==
  IF \E i \in 1..Len(trail) : trail[i] = lit
  THEN CHOOSE i \in 1..Len(trail) : trail[i] = lit ELSE 0

\* The decisions of the levels above 0.
Decisions == { levels[l + 1].decision : l \in 1..level }

\* Clause c is allocated, holds lit, and its other literals are false and
\* on the trail before lit.
Justifies(c, lit) ==
  /\ c \in 1..Len(memory) /\ ~memory[c].freed /\ ~memory[c].garbage
  /\ \E k \in 1..memory[c].size : memory[c].literals[k] = lit
  /\ \A k \in 1..memory[c].size :
       memory[c].literals[k] # lit =>
         /\ val(M, memory[c].literals[k]) < 0
         /\ TrailPosition(0 - memory[c].literals[k]) > 0
         /\ TrailPosition(0 - memory[c].literals[k]) < TrailPosition(lit)

(***************************************************************************)
(* C33: in every state, a variable assigned above level 0 that has a       *)
(* reason has a reason clause that is allocated and not garbage, holds the *)
(* true literal of the variable, and whose other literals are false and    *)
(* earlier on the trail; the variables assigned above level 0 without a    *)
(* reason are the decisions, and no decision has a reason.                 *)
(***************************************************************************)
ReasonsJustifyAssignments ==
  /\ \A l \in 1..level : vars[vidx(levels[l + 1].decision)].reason = 0
  /\ \A idx \in 1..max_var :
       (vals[idx] # 0 /\ vars[idx].level > 0) =>
         /\ TrailPosition(TrueLiteral(idx)) > 0
         /\ IF vars[idx].reason # 0
            THEN /\ Justifies(vars[idx].reason, TrueLiteral(idx))
                 /\ TrueLiteral(idx) \notin Decisions
            ELSE TrueLiteral(idx) \in Decisions

\* After two reduces, a literal above level 0 has a learned clause of three
\* literals or more for its reason.
LearnedReasonAfterReduce ==
  /\ stats.reduce.count >= 2 /\ level > 0
  /\ \E idx \in 1..max_var :
       /\ vals[idx] # 0 /\ vars[idx].level > 0 /\ vars[idx].reason # 0
       /\ memory[vars[idx].reason].redundant /\ memory[vars[idx].reason].size >= 3

\* The levels whose seen counter the analysis of the step has raised and
\* clear_levels resets: those of the seen variables.
SeenLevels == { vars[idx].level : idx \in SeenVars }

(***************************************************************************)
(* C34: the level stack is never accessed out of bounds: once it is set    *)
(* up the current level is its size minus one, and every level whose seen  *)
(* counter analyze resets after backtracking to the jump level is an entry *)
(* of the stack, so at most the current level.                             *)
(***************************************************************************)
LevelStackInBounds ==
  /\ [](pc # "header" => level = Len(levels) - 1)
  /\ [][AnalyzeStep => \A l \in SeenLevels : l <= level' /\ l + 1 <= Len(levels')]_vars_all
  /\ []("clear_levels writes past the end of levels" \notin hazard)

\* C34 without the writes of clear_levels: the current level is the size of
\* the level stack minus one, the levels of the seen variables are entries
\* of the stack when the analysis marks them, and clear_levels is the only
\* place that leaves the stack.
LevelStackInBoundsBeforeClearing ==
  /\ [](pc # "header" => level = Len(levels) - 1)
  /\ [][AnalyzeStep => \A l \in SeenLevels : l >= 1 /\ l + 1 <= Len(levels)]_vars_all
  /\ [](hazard \subseteq {"clear_levels writes past the end of levels"})

\* The trail position of the decision of the conflict level.
DecisionPosition == TrailPosition(levels[level + 1].decision)

\* The literal the k-th backward scan of the analysis of the step stopped
\* at: a candidate for the first UIP.
ScanStop(k) == trail[scans'[k].at]

(***************************************************************************)
(* C35: in the analysis of a conflict above level 0 the counter open is at *)
(* least 1 at every backward scan of the trail, no scan goes below the     *)
(* position of the decision of the conflict level, every literal a scan    *)
(* stops at is assigned at the conflict level, and every such literal that *)
(* is resolved upon (open still above 0 after the decrement) has a reason; *)
(* the analysis ends at the scan that finds open at 1.                     *)
(***************************************************************************)
AnalysisScansInBounds ==
  /\ [][AnalyzeStep =>
          /\ Len(scans') >= 1
          /\ DecisionPosition >= 1
          /\ \A k \in 1..Len(scans') :
               /\ scans'[k].open >= 1
               /\ scans'[k].at >= DecisionPosition /\ scans'[k].at <= Len(trail)
               /\ vars[vidx(ScanStop(k))].level = level
               /\ vals[vidx(ScanStop(k))] # 0
               /\ (scans'[k].open - 1 > 0) <=> (k < Len(scans'))
               /\ (scans'[k].open - 1 > 0) => vars[vidx(ScanStop(k))].reason # 0
               /\ k > 1 => scans'[k].at < scans'[k - 1].at
          /\ pc' # "abort"]_vars_all
  /\ []("analyze reads a null reason" \notin hazard)
  /\ []("analyze scans below the trail" \notin hazard)

\* An analysis has resolved upon two literals or more before it found the
\* first UIP at the decision of its level.
AnalysisResolvedTwice ==
  /\ branch = "analyze" /\ Len(scans) >= 3
  /\ scans[1].open >= 2

====
